---- MODULE Spec2Model ----
(***************************************************************************)
(* A model of the connection-dispatch engine of python-client-server:      *)
(*   - the forking, threading and iterative socket dispatchers             *)
(*     (Server/SocketServer), their handler units and the socket           *)
(*     connection's receive loop;                                          *)
(*   - the socket and serial clients' connect() loops (Client/...);        *)
(*   - receive_line and the decoding of received chunks (Connection/...);  *)
(*   - the serial connection: its background reader, its receive buffer    *)
(*     and mutex, and the foreground's receive, send and disconnect check; *)
(*   - the socket connection's send and receive (Connection/...);          *)
(*   - the echo scenario of TestServer.py over one socket connection.      *)
(***************************************************************************)
EXTENDS Integers, Sequences, FiniteSets, TLC

\* Number of connections that ever reach the listening socket; max_connections
\* ranges over 1..MaxConn.
MaxConn == 2

Conns == 1..MaxConn

VARIABLES
    strategy,         \* "forking" | "threading" | "iterative": the dispatcher class
    max_connections,  \* self._max_connections
    keep_running,     \* the flag the caller's serve() callable reads
    pc,               \* the dispatcher's position in serve_until
    children,         \* the list `children` (forking) / `threads` (threading)
    todo,             \* what is left of the copy a for-loop iterates over
    accepted,         \* number of connections accepted so far
    hpc,              \* per connection: the position of the unit running its handler
    peer,             \* per connection: what the remote end has done
    pipe,             \* per connection: messages in the parent->child pipe
    wclosed,          \* per connection: the parent closed its pipe_write
    lastEval,         \* per connection: result of the latest disconnect evaluation
    everTrue,         \* per connection: some disconnect evaluation returned True
    closes,           \* per connection: number of socket close() calls performed
    status,           \* per connection: the unit's `status` / `self._status`
    \* ---- the client (Client/SocketClient.py, Client/SerialClient.py)
    kind,             \* "socket" | "serial": the client class
    reconnect,        \* self._reconnect is not None
    stop_requested,   \* what the caller's disconnect() callable returns
    everStopped,      \* disconnect() could have returned True at some time
    cpc,              \* the position of connect()
    opens,            \* open attempts made (socket.connect / serial.open)
    refusals,         \* open attempts that were refused / port not available
    sleeps,           \* time.sleep(self._reconnect) calls made
    handlerCalls,     \* handler invocations
    outcomes,         \* how each handler invocation that ended, ended
    transport_open,   \* self._socket / self._serial is open
    unclosed,         \* sockets connect() created, replaced and never closed
    raised,           \* the error connect() raised, "none" if none
    \* ---- a connection's line reader (Connection/Connection.py)
    sent,             \* the bytes the peer sent on the connection, in order
    wire,             \* those of them that no recv() has returned yet
    decoded,          \* concatenation of the chunks receive() has returned
    line_buffer,      \* self._line_buffer
    lines,            \* the lines receive_line has returned, in order
    bounded,          \* the call's buffer_size is not None
    buffer_size,      \* the call's buffer_size after max(1, buffer_size)
    lpc,              \* "idle", or "receive": receive_line waits in receive()
    connection_type,  \* the class of the connection: "socket" | "serial"
    encoding,         \* the call's encoding argument
    line_raised,      \* the exception the latest receive_line call raised at once
    \* ---- a serial connection (Connection/SerialConnection.py)
    device,           \* bytes on their way to the serial port, in order
    protocol_buffer,  \* _BufferProtocol._buffer
    connection_reset, \* _BufferProtocol._connection_reset
    reader,           \* the reader thread: "alive" | "ended" | "raised" | "stopped"
    cause,            \* the exception that ended the reader, "none" if none
    disconnect_asked, \* what the connection's self._disconnect() returns
    fpc,              \* the foreground: "idle" | "receive" | "read" | "locked" | "send"
    fresult,          \* how the foreground's latest call ended
    got,              \* concatenation of what _BufferProtocol.read returned
    lock,             \* _BufferProtocol._lock: "free", or the thread that holds it
    rpc,              \* the reader thread: "read" | "data_received" | "locked"
    data,             \* the argument of the data_received call in progress
    read_size,        \* the buffer_size argument of the receive call
    call,             \* the buffer and encoding arguments of the send call
    total,            \* the local `total` of send
    written,          \* number of bytes self._transport.write has written
    transport_error,  \* the exception self._transport.write raised, "none" if none
    passed,           \* concatenation of the data passed to data_received
    \* ---- the echo scenario (TestServer.py, Client/SocketClient.py)
    script,           \* the lines the client's handler sends before 'quit'
    to_server,        \* bytes sent by the client that the server has not received
    to_client,        \* bytes sent by the server that the client has not received
    spc,              \* echo_server: "hello" | "receive_line" | "closing" | "closed"
    server_line_buffer, \* the server connection's self._line_buffer
    server_closed,    \* the dispatcher has closed the connection
    server_outcome,   \* the socket.error that ended echo_server, "none" if none
    cmode,            \* the client's handler: "idle" | "receive_line"
    nsent,            \* number of lines the client's handler has sent
    client_line_buffer, \* the client connection's self._line_buffer
    reads,            \* the lines receive_line has returned to the client's handler
    client_closed,    \* connect() has closed the connection
    client_outcome,   \* how the client's handler ended, "none" if it has not
    \* ---- a socket connection (Connection/SocketConnection.py)
    signal,           \* what the connection's self._disconnect() returns
    incoming,         \* bytes the peer has sent that have not arrived yet
    inbox,            \* bytes that have arrived and no recv() has returned
    peer_shut,        \* the peer has shut down its side: end of stream
    write_ready,      \* select() reports the socket ready for writing
    sock_written,     \* number of bytes sendall has written
    qpc,              \* the handler: "idle" | "send" | "receive"
    qcall,            \* the arguments of the send or receive call
    qresult,          \* how the handler's latest call ended
    returned,         \* what the latest receive() returned
    nrecv,            \* number of bytes the latest recv() returned
    sock_error,       \* the socket.error sendall raised, "none" if none
    \* ---- the construction of a socket server (Server/SocketServer.py)
    server_class,     \* the class whose __init__ runs
    address_valid,    \* the address argument is an IPv4 address (inet_aton)
    port_integral,    \* the port argument is an int
    handler_callable, \* the handler argument is callable
    path_before,      \* what was at the Unix path when __init__ was called
    path_state,       \* what is at the Unix path: "absent" | "socket" | "file"
    listen_socket,    \* self._socket: "none" | "created" | "bound"
    ipc,              \* the position of __init__
    init_raised       \* the error __init__ raised, "none" if none

svars == <<strategy, max_connections, keep_running, pc, children, todo,
           accepted, hpc, peer, pipe, wclosed, lastEval, everTrue, closes,
           status>>

cvars == <<kind, reconnect, stop_requested, everStopped, cpc, opens, refusals,
           sleeps, handlerCalls, outcomes, transport_open, unclosed, raised>>

lvars == <<sent, wire, decoded, line_buffer, lines, bounded, buffer_size, lpc,
           connection_type, encoding, line_raised>>

rvars == <<device, protocol_buffer, connection_reset, reader, cause,
           disconnect_asked, fpc, fresult, got, lock, rpc, data, read_size,
           call, total, written, transport_error, passed>>

evars == <<script, to_server, to_client, spc, server_line_buffer,
           server_closed, server_outcome, cmode, nsent, client_line_buffer,
           reads, client_closed, client_outcome>>

kvars == <<signal, incoming, inbox, peer_shut, write_ready, sock_written,
           qpc, qcall, qresult, returned, nrecv, sock_error>>

ivars == <<server_class, address_valid, port_integral, handler_callable,
           path_before, path_state, listen_socket, ipc, init_raised>>

vars == <<svars, cvars, lvars, rvars, evars, kvars, ivars>>

\* What the steps of one component leave alone.
notServer == <<cvars, lvars, rvars, evars, kvars, ivars>>

notClient == <<svars, lvars, rvars, evars, kvars, ivars>>

notLine == <<svars, cvars, rvars, evars, kvars, ivars>>

notSerial == <<svars, cvars, lvars, evars, kvars, ivars>>

notEcho == <<svars, cvars, lvars, rvars, kvars, ivars>>

notSocket == <<svars, cvars, lvars, rvars, evars, ivars>>

notConstruct == <<svars, cvars, lvars, rvars, evars, kvars>>

----------------------------------------------------------------------------
(* Helpers on sequences *)

RECURSIVE Remove(_, _)
\* list.remove(x): drop the first occurrence of x.
Remove(s, x) ==
    IF s = <<>> THEN <<>>
    ELSE IF Head(s) = x THEN Tail(s)
    ELSE <<Head(s)>> \o Remove(Tail(s), x)

----------------------------------------------------------------------------
(* The stop predicate and the disconnect signals *)

\* serve(): the caller's callable, reading a flag the caller may set at any
\* time (serve_forever is the behaviour in which the flag stays True).
Serve == keep_running

\* _ForkingSocketServer._disconnect._closure: poll the pipe; a message, if
\* any, is consumed and compared with 'disconnect'.  The child keeps its own
\* copy of the write end open, so poll() never reports end-of-file.
ForkingDisconnect(c) ==
    IF pipe[c] # <<>> THEN Head(pipe[c]) = "disconnect" ELSE FALSE

ForkingPipeAfter(c) ==
    IF pipe[c] # <<>> THEN Tail(pipe[c]) ELSE pipe[c]

\* The threading dispatcher hands the connection lambda: not serve().
ThreadingDisconnect == ~Serve

\* Connection.disconnect for connection c.
Disconnect(c) ==
    IF strategy = "forking" THEN ForkingDisconnect(c) ELSE ThreadingDisconnect

Running(c) == hpc[c] \in {"run", "recv"}

----------------------------------------------------------------------------
ServerInit ==
    /\ strategy \in {"forking", "threading", "iterative"}
    /\ max_connections \in (IF strategy = "iterative" THEN {1} ELSE 1..MaxConn)
    /\ keep_running = TRUE
    /\ pc = "outer"
    /\ children = <<>>
    /\ todo = <<>>
    /\ accepted = 0
    /\ hpc = [c \in Conns |-> "idle"]
    /\ peer = [c \in Conns |-> "idle"]
    /\ pipe = [c \in Conns |-> <<>>]
    /\ wclosed = [c \in Conns |-> FALSE]
    /\ lastEval = [c \in Conns |-> FALSE]
    /\ everTrue = [c \in Conns |-> FALSE]
    /\ closes = [c \in Conns |-> 0]
    /\ status = [c \in Conns |-> <<"int", 0>>]

----------------------------------------------------------------------------
(* The caller flips the flag that serve() reads (TimedServer.start/stop). *)

SetKeepRunning ==
    /\ keep_running' = ~keep_running
    /\ UNCHANGED <<strategy, max_connections, pc, children, todo,
                   accepted, hpc, peer, pipe, wclosed, lastEval, everTrue, closes, status>>
    /\ UNCHANGED notServer

----------------------------------------------------------------------------
(* The dispatcher: serve_until *)

\* `while serve():` of the accept loop.
EvalOuter ==
    /\ pc = "outer"
    /\ IF Serve
       THEN pc' = "accept" /\ todo' = todo
       ELSE pc' = "stop" /\ todo' = children
    /\ UNCHANGED <<strategy, max_connections, keep_running, children,
                   accepted, hpc, peer, pipe, wclosed, lastEval, everTrue, closes, status>>
    /\ UNCHANGED notServer

\* accept() times out: continue.
AcceptTimeout ==
    /\ pc = "accept"
    /\ pc' = "outer"
    /\ UNCHANGED <<strategy, max_connections, keep_running, children, todo,
                   accepted, hpc, peer, pipe, wclosed, lastEval, everTrue, closes, status>>
    /\ UNCHANGED notServer

\* accept() raises a socket.error other than socket.timeout: the except clause
\* does not catch it and it leaves serve_until.
AcceptFails ==
    /\ pc = "accept"
    /\ pc' = "raised"
    /\ UNCHANGED <<strategy, max_connections, keep_running, children, todo,
                   accepted, hpc, peer, pipe, wclosed, lastEval, everTrue, closes, status>>
    /\ UNCHANGED notServer

\* accept() returns a connection; a unit is created for it (fork / thread.start)
\* and appended to the list.  The iterative dispatcher calls the handler
\* itself and stays in the call until the handler ends.
AcceptDispatch ==
    /\ pc = "accept"
    /\ accepted < MaxConn
    /\ LET c == accepted + 1 IN
        /\ accepted' = c
        /\ hpc' = [hpc EXCEPT ![c] = "run"]
        /\ children' = IF strategy = "iterative" THEN children
                       ELSE Append(children, c)
    /\ pc' = IF strategy = "iterative" THEN "handler" ELSE "inner"
    /\ UNCHANGED <<strategy, max_connections, keep_running, todo,
                   peer, pipe, wclosed, lastEval, everTrue, closes, status>>
    /\ UNCHANGED notServer

\* EvalInner with the loop condition left unevaluated: the reap loop goes on
\* until a slot is free.
EvalInnerNoRecheck ==
    /\ pc = "inner"
    /\ pc' = "reap" /\ todo' = children
    /\ UNCHANGED <<strategy, max_connections, keep_running, children,
                   accepted, hpc, peer, pipe, wclosed, lastEval, everTrue, closes, status>>
    /\ UNCHANGED notServer

\* `while serve():` of the reap loop; the for-loop iterates over a copy.
EvalInner ==
    /\ pc = "inner"
    /\ IF Serve
       THEN pc' = "reap" /\ todo' = children
       ELSE pc' = "outer" /\ todo' = todo
    /\ UNCHANGED <<strategy, max_connections, keep_running, children,
                   accepted, hpc, peer, pipe, wclosed, lastEval, everTrue, closes, status>>
    /\ UNCHANGED notServer

\* ReapOne removing the entry whether its unit has finished or not.
ReapOneUnchecked ==
    /\ pc = "reap"
    /\ todo # <<>>
    /\ children' = Remove(children, Head(todo))
    /\ wclosed' = [wclosed EXCEPT ![Head(todo)] = (strategy = "forking")]
    /\ todo' = Tail(todo)
    /\ UNCHANGED <<strategy, max_connections, keep_running, pc,
                   accepted, hpc, peer, pipe, lastEval, everTrue, closes, status>>
    /\ UNCHANGED notServer

\* One iteration of the for-loop: waitpid(pid, WNOHANG) / thread.is_alive().
ReapOne ==
    /\ pc = "reap"
    /\ todo # <<>>
    /\ LET c == Head(todo) IN
        IF hpc[c] = "exited"
        THEN /\ children' = Remove(children, c)
             /\ wclosed' = [wclosed EXCEPT ![c] = (strategy = "forking")]
        ELSE UNCHANGED <<children, wclosed>>
    /\ todo' = Tail(todo)
    /\ UNCHANGED <<strategy, max_connections, keep_running, pc,
                   accepted, hpc, peer, pipe, lastEval, everTrue, closes, status>>
    /\ UNCHANGED notServer

\* After the for-loop: break when a slot is free, else sleep and loop.
ReapCheck ==
    /\ pc = "reap"
    /\ todo = <<>>
    /\ pc' = IF Len(children) < max_connections THEN "outer" ELSE "inner"
    /\ UNCHANGED <<strategy, max_connections, keep_running, children, todo,
                   accepted, hpc, peer, pipe, wclosed, lastEval, everTrue, closes, status>>
    /\ UNCHANGED notServer

\* StopOne leaving the write end of the pipe open after the message.
StopOneNotClosing ==
    /\ pc = "stop"
    /\ todo # <<>>
    /\ LET c == Head(todo) IN
        IF strategy = "forking"
        THEN /\ pipe' = [pipe EXCEPT ![c] = Append(@, "disconnect")]
             /\ UNCHANGED wclosed
        ELSE /\ hpc[c] = "exited"
             /\ UNCHANGED <<pipe, wclosed>>
    /\ todo' = Tail(todo)
    /\ UNCHANGED <<strategy, max_connections, keep_running, pc, children,
                   accepted, hpc, peer, lastEval, everTrue, closes, status>>
    /\ UNCHANGED notServer

\* The loop after the accept loop, one iteration: the forking dispatcher sends
\* 'disconnect' and closes the pipe; the threading dispatcher joins the thread.
StopOne ==
    /\ pc = "stop"
    /\ todo # <<>>
    /\ LET c == Head(todo) IN
        IF strategy = "forking"
        THEN /\ pipe' = [pipe EXCEPT ![c] = Append(@, "disconnect")]
             /\ wclosed' = [wclosed EXCEPT ![c] = TRUE]
        ELSE /\ hpc[c] = "exited"
             /\ UNCHANGED <<pipe, wclosed>>
    /\ todo' = Tail(todo)
    /\ UNCHANGED <<strategy, max_connections, keep_running, pc, children,
                   accepted, hpc, peer, lastEval, everTrue, closes, status>>
    /\ UNCHANGED notServer

\* serve_until returns.
Return ==
    /\ pc = "stop"
    /\ todo = <<>>
    /\ pc' = "returned"
    /\ UNCHANGED <<strategy, max_connections, keep_running, children, todo,
                   accepted, hpc, peer, pipe, wclosed, lastEval, everTrue, closes, status>>
    /\ UNCHANGED notServer

----------------------------------------------------------------------------
(* The remote end of a connection *)

PeerSend(c) ==
    /\ Running(c)
    /\ peer[c] = "idle"
    /\ peer' = [peer EXCEPT ![c] = "data"]
    /\ UNCHANGED <<strategy, max_connections, keep_running, pc, children, todo,
                   accepted, hpc, pipe, wclosed, lastEval, everTrue, closes, status>>
    /\ UNCHANGED notServer

\* The peer drops the connection (a reset reaches the socket).
PeerDrop(c) ==
    /\ Running(c)
    /\ peer[c] \in {"idle", "data"}
    /\ peer' = [peer EXCEPT ![c] = "reset"]
    /\ UNCHANGED <<strategy, max_connections, keep_running, pc, children, todo,
                   accepted, hpc, pipe, wclosed, lastEval, everTrue, closes, status>>
    /\ UNCHANGED notServer

----------------------------------------------------------------------------
(* The unit running the handler of connection c *)

\* The handler calls connection.receive().
HandlerReceive(c) ==
    /\ hpc[c] = "run"
    /\ hpc' = [hpc EXCEPT ![c] = "recv"]
    /\ UNCHANGED <<strategy, max_connections, keep_running, pc, children, todo,
                   accepted, peer, pipe, wclosed, lastEval, everTrue, closes, status>>
    /\ UNCHANGED notServer

\* One iteration of the wait loop of _SocketConnection.receive: the disconnect
\* property first, then poll(), then recv().
ReceiveIteration(c) ==
    /\ hpc[c] = "recv"
    /\ LET d == Disconnect(c) IN
        /\ lastEval' = [lastEval EXCEPT ![c] = d]
        /\ everTrue' = [everTrue EXCEPT ![c] = @ \/ d]
        /\ pipe' = IF strategy = "forking"
                   THEN [pipe EXCEPT ![c] = ForkingPipeAfter(c)] ELSE pipe
        /\ IF d
           THEN \* raise socket.error(ECONNABORTED): back in the handler
                /\ hpc' = [hpc EXCEPT ![c] = "run"]
                /\ peer' = peer
           ELSE IF peer[c] = "idle"
           THEN \* not ready for reading: loop
                UNCHANGED <<hpc, peer>>
           ELSE \* recv(): data, or ECONNRESET raised: back in the handler
                /\ hpc' = [hpc EXCEPT ![c] = "run"]
                /\ peer' = [peer EXCEPT ![c] = IF @ = "data" THEN "idle" ELSE @]
    /\ UNCHANGED <<strategy, max_connections, keep_running, pc, children, todo,
                   accepted, wclosed, closes, status>>
    /\ UNCHANGED notServer

\* _SocketServer._close_connection: shutdown(SHUT_RDWR) raises on a connection
\* the peer has reset, and close() is then skipped.
CloseConnection(c) ==
    IF peer[c] = "reset" THEN closes[c] ELSE closes[c] + 1

\* What a handler may return: an integer, an integer that is no C int (2**31,
\* say, written "int_wide": the model's own integers are C ints), or
\* something that is not an integer.
ReturnValues == {<<"int", 3>>, <<"int_wide", 0>>, <<"NoneType", 0>>}

\* os._exit(status) raises OverflowError for an integer that is no C int.
ExitRaises(v) == v[1] = "int_wide"

\* Lines 160-161 / 232-233 / 344-345: a status that is not integral is
\* overruled by 0.
AdvisoryStatus(v) == IF v[1] \in {"int", "int_wide"} THEN v ELSE <<"int", 0>>

\* The positions of a unit between the end of the handler call and the finally
\* clause: the handler returned; it raised a socket.error with errno
\* ECONNRESET, ECONNABORTED or EPIPE, which is logged; it raised anything else,
\* caught by `except Exception` and logged.
Ended == {"returned", "except_socket", "except_other"}

\* The handler returns v: status = self._handler(...).
HandlerReturn(c) ==
    /\ hpc[c] = "run"
    /\ hpc' = [hpc EXCEPT ![c] = "returned"]
    /\ \E v \in ReturnValues : status' = [status EXCEPT ![c] = v]
    /\ UNCHANGED <<strategy, max_connections, keep_running, pc, children, todo,
                   accepted, peer, pipe, wclosed, lastEval, everTrue, closes>>
    /\ UNCHANGED notServer

\* The handler raises: the assignment to status is not made.
HandlerRaise(c) ==
    /\ hpc[c] = "run"
    /\ \E e \in {"except_socket", "except_other"} : hpc' = [hpc EXCEPT ![c] = e]
    /\ UNCHANGED <<strategy, max_connections, keep_running, pc, children, todo,
                   accepted, peer, pipe, wclosed, lastEval, everTrue, closes, status>>
    /\ UNCHANGED notServer

\* HandlerEnd without the `except Exception` clause of the iterative
\* dispatcher: an exception that is no connection error leaves serve_until.
HandlerEndPropagating(c) ==
    /\ hpc[c] \in Ended
    /\ hpc' = [hpc EXCEPT ![c] =
                  IF strategy = "forking" /\ ExitRaises(AdvisoryStatus(status[c]))
                  THEN "escaped" ELSE "exited"]
    /\ closes' = [closes EXCEPT ![c] = CloseConnection(c)]
    /\ status' = [status EXCEPT ![c] = AdvisoryStatus(@)]
    /\ peer' = [peer EXCEPT ![c] = "gone"]
    /\ lastEval' = [lastEval EXCEPT ![c] = FALSE]
    /\ everTrue' = [everTrue EXCEPT ![c] = FALSE]
    /\ pc' = IF strategy = "iterative"
             THEN (IF hpc[c] = "except_other" THEN "raised" ELSE "outer")
             ELSE pc
    /\ UNCHANGED <<strategy, max_connections, keep_running, children, todo,
                   accepted, pipe, wclosed>>
    /\ UNCHANGED notServer

\* The finally clause: the connection is closed, the status is made integral
\* and the unit terminates (os._exit, end of run), and with it the connection
\* object, its disconnect closure and the unit's end of the pipe.  The
\* iterative dispatcher goes on with its loop.  When os._exit raises, the
\* child process has "escaped": the OverflowError leaves the finally clause
\* and serve_until, and the child goes on in the code that called serve_until.
HandlerEnd(c) ==
    /\ hpc[c] \in Ended
    /\ hpc' = [hpc EXCEPT ![c] =
                  IF strategy = "forking" /\ ExitRaises(AdvisoryStatus(status[c]))
                  THEN "escaped" ELSE "exited"]
    /\ closes' = [closes EXCEPT ![c] = CloseConnection(c)]
    /\ status' = [status EXCEPT ![c] = AdvisoryStatus(@)]
    /\ peer' = [peer EXCEPT ![c] = "gone"]
    /\ lastEval' = [lastEval EXCEPT ![c] = FALSE]
    /\ everTrue' = [everTrue EXCEPT ![c] = FALSE]
    /\ pc' = IF strategy = "iterative" THEN "outer" ELSE pc
    /\ UNCHANGED <<strategy, max_connections, keep_running, children, todo,
                   accepted, pipe, wclosed>>
    /\ UNCHANGED notServer

\* A child process that has left serve_until with an exception ends, when
\* nothing in the caller's code catches the exception.
EscapedChildExits(c) ==
    /\ hpc[c] = "escaped"
    /\ hpc' = [hpc EXCEPT ![c] = "exited"]
    /\ UNCHANGED <<strategy, max_connections, keep_running, pc, children, todo,
                   accepted, peer, pipe, wclosed, lastEval, everTrue, closes, status>>
    /\ UNCHANGED notServer

----------------------------------------------------------------------------
ServerNext ==
    \/ SetKeepRunning
    \/ EvalOuter
    \/ AcceptTimeout
    \/ AcceptFails
    \/ AcceptDispatch
    \/ EvalInner
    \/ ReapOne
    \/ ReapCheck
    \/ StopOne
    \/ Return
    \/ \E c \in Conns : PeerSend(c)
    \/ \E c \in Conns : PeerDrop(c)
    \/ \E c \in Conns : HandlerReceive(c)
    \/ \E c \in Conns : ReceiveIteration(c)
    \/ \E c \in Conns : HandlerReturn(c)
    \/ \E c \in Conns : HandlerRaise(c)
    \/ \E c \in Conns : HandlerEnd(c)
    \/ \E c \in Conns : EscapedChildExits(c)

----------------------------------------------------------------------------
(* The client: connect() of _SocketClient (with _connect) and _SerialClient *)

\* Open attempts one connect() call may make.
MaxOpens == 4

\* How a handler invocation can end: it returns, or raises
\*   "aborted"  socket.error ECONNABORTED / ConnectionError E_CONNECTION_ABORTED
\*   "reset"    socket.error ECONNRESET   / ConnectionError E_CONNECTION_RESET
\*   "epipe"    socket.error EPIPE (socket transport only)
\*   "oserror"  socket.error / ConnectionError with any other code
\*   "exception" an exception of any other class
Outcomes(k) ==
    IF k = "socket"
    THEN {"return", "aborted", "reset", "epipe", "oserror", "exception"}
    ELSE {"return", "aborted", "reset", "oserror", "exception"}

\* How an open attempt can end: connected, refused (ECONNREFUSED; the serial
\* port missing or not accessible), or any other error.
OpenResults == {"ok", "refused", "oserror"}

\* _SocketClient._connect, the except clause: sleep and retry, or re-raise.
SocketOpenFailure(rc, result) ==
    IF rc /\ result = "refused" THEN "retry" ELSE "raise"

\* _SerialClient.connect, the except clause of serial.open().
SerialOpenFailure(rc, result) ==
    IF rc /\ result = "refused" THEN "retry" ELSE "raise"

\* SocketHandlerExit with the `self._reconnect is not None` test of the elif
\* left out: a lost connection is retried whatever the configuration.
SocketHandlerExitNoThrottleTest(rc, o) ==
    IF o = "return" THEN "break"
    ELSE IF o = "exception" THEN "raise"
    ELSE IF o = "aborted" THEN "break"
    ELSE IF o \in {"reset", "epipe"} THEN "retry"
    ELSE "raise"

\* _SocketClient.connect: what the try statement around the handler does with
\* each outcome: "break", "retry" (sleep, continue) or "raise".
SocketHandlerExit(rc, o) ==
    IF o = "return" THEN "break"
    ELSE IF o = "exception" THEN "raise"
    ELSE IF o = "aborted" THEN "break"
    ELSE IF rc /\ o \in {"reset", "epipe"} THEN "retry"
    ELSE "raise"

\* _SerialClient.connect: the same; the try statement has no else clause, so
\* after a normal return control falls to the end of the loop body.
SerialHandlerExit(rc, o) ==
    IF o = "return" THEN "loop"
    ELSE IF o = "exception" THEN "raise"
    ELSE IF o = "aborted" THEN "break"
    ELSE IF rc /\ o = "reset" THEN "retry"
    ELSE "raise"

HandlerExit(k, rc, o) ==
    IF k = "socket" THEN SocketHandlerExit(rc, o) ELSE SerialHandlerExit(rc, o)

OpenFailure(k, rc, result) ==
    IF k = "socket" THEN SocketOpenFailure(rc, result) ELSE SerialOpenFailure(rc, result)

\* _close_connection: the socket client calls shutdown() and then close() in
\* one try block, so close() is skipped when shutdown() raises; the serial
\* client calls close() alone.  The result is whether the transport is open.
ClientCloseConnection(k, shutdown_ok) ==
    IF k = "socket" THEN ~shutdown_ok ELSE FALSE

ClientInit ==
    /\ kind \in {"socket", "serial"}
    /\ reconnect \in BOOLEAN
    /\ stop_requested = FALSE
    /\ everStopped = FALSE
    /\ cpc = "top"
    /\ opens = 0
    /\ refusals = 0
    /\ sleeps = 0
    /\ handlerCalls = 0
    /\ outcomes = <<>>
    /\ transport_open = FALSE
    /\ unclosed = 0
    /\ raised = "none"

\* The caller flips the flag disconnect() reads (TimedClient.start/stop).
SetStop ==
    /\ cpc \notin {"returned", "raised"}
    /\ stop_requested' = ~stop_requested
    /\ everStopped' = TRUE
    /\ UNCHANGED <<kind, reconnect, cpc, opens, refusals, sleeps, handlerCalls,
                   outcomes, transport_open, unclosed, raised>>
    /\ UNCHANGED notClient

\* EvalDisconnect with the result of disconnect() ignored: the loop is entered
\* whatever the predicate says.
EvalDisconnectIgnored ==
    /\ cpc = "top"
    /\ cpc' = "open"
    /\ UNCHANGED <<kind, reconnect, stop_requested, everStopped, opens, refusals,
                   sleeps, handlerCalls, outcomes, transport_open, unclosed, raised>>
    /\ UNCHANGED notClient

\* `while not disconnect():`
EvalDisconnect ==
    /\ cpc = "top"
    /\ cpc' = IF stop_requested THEN "returned" ELSE "open"
    /\ UNCHANGED <<kind, reconnect, stop_requested, everStopped, opens, refusals,
                   sleeps, handlerCalls, outcomes, transport_open, unclosed, raised>>
    /\ UNCHANGED notClient

\* One open attempt.  The socket client creates a new socket for every attempt
\* and binds self._socket to it, whatever became of the previous one; the
\* serial client opens the one port object.
OpenAttempt ==
    /\ cpc = "open"
    /\ opens < MaxOpens
    /\ opens' = opens + 1
    /\ \E result \in OpenResults :
        /\ refusals' = IF result = "refused" THEN refusals + 1 ELSE refusals
        /\ unclosed' = IF kind = "socket" /\ transport_open THEN unclosed + 1 ELSE unclosed
        /\ transport_open' = IF kind = "socket" THEN TRUE ELSE (result = "ok")
        /\ IF result = "ok"
           THEN /\ cpc' = "handler"
                /\ handlerCalls' = handlerCalls + 1
                /\ UNCHANGED <<sleeps, raised>>
           ELSE /\ handlerCalls' = handlerCalls
                /\ IF OpenFailure(kind, reconnect, result) = "retry"
                   THEN cpc' = "top" /\ sleeps' = sleeps + 1 /\ raised' = raised
                   ELSE cpc' = "raised" /\ sleeps' = sleeps /\ raised' = result
    /\ UNCHANGED <<kind, reconnect, stop_requested, everStopped, outcomes>>
    /\ UNCHANGED notClient

\* The handler ends; the except clauses act on the outcome and the finally
\* clause closes the connection.
HandlerDone ==
    /\ cpc = "handler"
    /\ \E o \in Outcomes(kind), shutdown_ok \in BOOLEAN :
        LET exit == HandlerExit(kind, reconnect, o) IN
        /\ outcomes' = Append(outcomes, o)
        /\ transport_open' = ClientCloseConnection(kind, shutdown_ok)
        /\ sleeps' = IF exit = "retry" THEN sleeps + 1 ELSE sleeps
        /\ cpc' = CASE exit = "break" -> "returned"
                    [] exit = "raise" -> "raised"
                    [] OTHER -> "top"
        /\ raised' = IF exit = "raise" THEN o ELSE raised
    /\ UNCHANGED <<kind, reconnect, stop_requested, everStopped, opens, refusals,
                   handlerCalls, unclosed>>
    /\ UNCHANGED notClient

ClientNext ==
    \/ SetStop
    \/ EvalDisconnect
    \/ OpenAttempt
    \/ HandlerDone

\* The part of the state a specification does not exercise stays as built.
ClientIdle ==
    /\ kind = "socket"
    /\ reconnect = FALSE
    /\ stop_requested = FALSE
    /\ everStopped = FALSE
    /\ cpc = "top"
    /\ opens = 0
    /\ refusals = 0
    /\ sleeps = 0
    /\ handlerCalls = 0
    /\ outcomes = <<>>
    /\ transport_open = FALSE
    /\ unclosed = 0
    /\ raised = "none"

ServerIdle ==
    /\ strategy = "forking"
    /\ max_connections = 1
    /\ keep_running = TRUE
    /\ pc = "outer"
    /\ children = <<>>
    /\ todo = <<>>
    /\ accepted = 0
    /\ hpc = [c \in Conns |-> "idle"]
    /\ peer = [c \in Conns |-> "idle"]
    /\ pipe = [c \in Conns |-> <<>>]
    /\ wclosed = [c \in Conns |-> FALSE]
    /\ lastEval = [c \in Conns |-> FALSE]
    /\ everTrue = [c \in Conns |-> FALSE]
    /\ closes = [c \in Conns |-> 0]
    /\ status = [c \in Conns |-> <<"int", 0>>]

----------------------------------------------------------------------------
(* A connection's receive and receive_line (Connection/Connection.py)       *)

\* Length of the text the peer sends on one connection.
MaxText == 4

\* Largest buffer_size a receive_line call is given.
MaxN == 2

\* The text is ASCII: a letter, carriage return, line feed.  One byte encodes
\* one character, so str(buffer, encoding) maps bytes to characters one to one.
Chars == {"a", "CR", "LF"}

Texts == UNION {[1..n -> Chars] : n \in 0..MaxText}

RECURSIVE UniversalNewlines(_)
\* Universal-newline translation of a text: every CR LF pair and every other
\* CR becomes one LF.
UniversalNewlines(s) ==
    IF s = <<>> THEN <<>>
    ELSE IF Head(s) = "CR"
         THEN IF Len(s) >= 2 /\ s[2] = "LF"
              THEN <<"LF">> \o UniversalNewlines(SubSeq(s, 3, Len(s)))
              ELSE <<"LF">> \o UniversalNewlines(Tail(s))
         ELSE <<Head(s)>> \o UniversalNewlines(Tail(s))

\* Connection._decode with an encoding: the buffer is decoded and written to
\* a StringIO(newline=None), which translates the newlines of what it is
\* given, a trailing CR included; getvalue() is the result.
Decode(buffer) == UniversalNewlines(buffer)

RECURSIVE FindFrom(_, _)
FindFrom(s, i) ==
    IF i > Len(s) THEN -1
    ELSE IF s[i] = "LF" THEN i - 1
    ELSE FindFrom(s, i + 1)

\* str.find('\n'): the index, from 0, of the first newline, -1 if none.
Find(s) == FindFrom(s, 1)

\* Truncate cutting one character late: nl = buffer_size.
TruncateOneLate(b, n, buf, nl) ==
    IF b /\ Len(buf) > n /\ (nl > n \/ nl < 0) THEN n ELSE nl

\* Line 84-85 of receive_line: where to cut when the buffer has outgrown the
\* bound.  b: buffer_size is not None; n: buffer_size.
Truncate(b, n, buf, nl) ==
    IF b /\ Len(buf) > n /\ (nl > n \/ nl < 0) THEN n - 1 ELSE nl

\* SplitLine cutting one character further: the character after the line is
\* dropped.
SplitLineDropping(buf, nl) ==
    <<SubSeq(buf, 1, nl + 1), SubSeq(buf, nl + 3, Len(buf))>>

\* Line 86: line, self._line_buffer = buf[:nl + 1], buf[nl + 1:]
SplitLine(buf, nl) ==
    <<SubSeq(buf, 1, nl + 1), SubSeq(buf, nl + 2, Len(buf))>>

Max(a, b) == IF a >= b THEN a ELSE b

\* The encoding arguments a handler passes: a codec name, or None.
Encodings == {"utf8", "None"}

\* The classes of connection receive_line is called on.
ConnectionTypes == {"socket", "serial"}

\* receive_line, line 76: `if encoding is None`.
EncodingIsNone(enc) == enc = "None"

RECURSIVE Flatten(_)
\* Concatenation of a sequence of strings.
Flatten(ss) == IF ss = <<>> THEN <<>> ELSE Head(ss) \o Flatten(Tail(ss))

LineInit ==
    /\ sent \in Texts
    /\ wire = sent
    /\ decoded = <<>>
    /\ line_buffer = <<>>
    /\ lines = <<>>
    /\ bounded = FALSE
    /\ buffer_size = 0
    /\ lpc = "idle"
    /\ connection_type \in ConnectionTypes
    /\ encoding = "utf8"
    /\ line_raised = "none"

\* receive_line(buffer_size, encoding) is called.  _SerialConnection overrides
\* receive_line (SerialConnection.py:142-143) with a call of
\* self._receive_line, which no class of the Connection package defines: the
\* call raises AttributeError.  Otherwise lines 76-81:  When the line buffer
\* holds a newline the loop is skipped and the call returns at once; otherwise
\* it enters the loop and calls receive().
ReceiveLineCall ==
    /\ lpc = "idle"
    /\ \E enc \in Encodings :
        /\ encoding' = enc
        /\ IF connection_type = "serial"
           THEN /\ line_raised' = "AttributeError"
                /\ UNCHANGED <<bounded, buffer_size, lpc, line_buffer, lines>>
           ELSE IF EncodingIsNone(enc)
           THEN /\ line_raised' = "InvalidEncodingNone"
                /\ UNCHANGED <<bounded, buffer_size, lpc, line_buffer, lines>>
           ELSE /\ line_raised' = "none"
                /\ \E b \in BOOLEAN, n \in 0..MaxN :
                    /\ bounded' = b
                    /\ buffer_size' = IF b THEN Max(1, n) ELSE 0
                /\ LET nl == Find(line_buffer) IN
                    IF nl < 0
                    THEN /\ lpc' = "receive"
                         /\ UNCHANGED <<line_buffer, lines>>
                    ELSE /\ lpc' = "idle"
                         /\ lines' = Append(lines, SplitLine(line_buffer, nl)[1])
                         /\ line_buffer' = SplitLine(line_buffer, nl)[2]
    /\ UNCHANGED <<sent, wire, decoded, connection_type>>
    /\ UNCHANGED notLine

\* One iteration of the loop, lines 82-85: receive() returns the next bytes of
\* the stream, as many as recv() happens to deliver, decoded; then the loop
\* condition, and line 86-87 when the loop ends.
ReceiveLineData ==
    /\ lpc = "receive"
    /\ wire # <<>>
    /\ \E k \in 1..Len(wire) :
        LET chunk == Decode(SubSeq(wire, 1, k))
            buf == line_buffer \o chunk
            nl == Truncate(bounded, buffer_size, buf, Find(buf))
        IN  /\ wire' = SubSeq(wire, k + 1, Len(wire))
            /\ decoded' = decoded \o chunk
            /\ IF nl < 0
               THEN /\ line_buffer' = buf
                    /\ UNCHANGED <<lines, lpc>>
               ELSE /\ lpc' = "idle"
                    /\ lines' = Append(lines, SplitLine(buf, nl)[1])
                    /\ line_buffer' = SplitLine(buf, nl)[2]
    /\ UNCHANGED <<sent, bounded, buffer_size, connection_type, encoding,
                   line_raised>>
    /\ UNCHANGED notLine

\* receive() raises (the disconnect signal is true, the peer closed): the
\* exception leaves receive_line, the line buffer stays as it is.
ReceiveLineError ==
    /\ lpc = "receive"
    /\ lpc' = "idle"
    /\ UNCHANGED <<sent, wire, decoded, line_buffer, lines, bounded,
                   buffer_size, connection_type, encoding, line_raised>>
    /\ UNCHANGED notLine

LineNext ==
    \/ ReceiveLineCall
    \/ ReceiveLineData
    \/ ReceiveLineError

LineIdle ==
    /\ sent = <<>>
    /\ wire = <<>>
    /\ decoded = <<>>
    /\ line_buffer = <<>>
    /\ lines = <<>>
    /\ bounded = FALSE
    /\ buffer_size = 0
    /\ lpc = "idle"
    /\ connection_type = "socket"
    /\ encoding = "utf8"
    /\ line_raised = "none"

----------------------------------------------------------------------------
(* A serial connection (Connection/SerialConnection.py)                     *)

\* Number of bytes that arrive at the serial port.
MaxBytes == 3

\* Longest payload a handler sends, in characters.
MaxPayload == 2

\* No send() is started once this many bytes were written to the port.
MaxWritten == 2

Bytes == {"x", "y"}

\* The buffer_size arguments a handler passes to receive().
ReadSizes == {0, 1, MaxBytes}

Arrivals == UNION {[1..n -> Bytes] : n \in 0..MaxBytes}

\* The characters of a text payload: one that utf8 encodes in one byte and
\* one that it encodes in two.
PayloadChars == {"a", "e_acute"}

\* What a handler passes to send(): a str, a bytes object (bytearray and
\* memoryview behave as bytes does), or an object of another type.
Payloads ==
    {[type |-> t, data |-> d] :
        t \in {"str", "bytes"},
        d \in UNION {[1..n -> PayloadChars] : n \in 0..MaxPayload}}
    \cup {[type |-> "int", data |-> <<>>]}

\* bytes(s, 'utf8') for a str s: an ASCII character is one byte (written as
\* the character), e-acute is the two bytes c3 a9.
RECURSIVE Utf8(_)
Utf8(s) ==
    IF s = <<>> THEN <<>>
    ELSE (IF Head(s) = "e_acute" THEN <<"c3", "a9">> ELSE <<Head(s)>>)
         \o Utf8(Tail(s))

\* Connection._encode(buffer, encoding): the exception it raises, "none" if
\* it returns.  bytes(buffer, encoding) raises TypeError when buffer is not a
\* str ("encoding without a string argument") and when encoding is None.
EncodeRaises(p, enc) ==
    IF p.type \notin {"str", "bytes"} THEN "InvalidBufferType"
    ELSE IF p.type # "str" \/ enc = "None" THEN "TypeError"
    ELSE "none"

\* Connection._encode(buffer, encoding) when it returns.
Encode(p) == Utf8(p.data)

\* What self._transport.write(data) can do: write, or raise.
WriteOutcomes == {"ok", "SerialException", "OSError"}

\* _BufferProtocol.write(data): what the caller sees of the outcome.
ProtocolWrite(outcome) ==
    IF outcome = "SerialException" THEN "ConnectionReset" ELSE outcome

NoCall == [buffer |-> [type |-> "str", data |-> <<>>], encoding |-> "utf8"]

\* What can end the reader thread: serial.SerialException raised by the read,
\* an OSError with errno EBADF, an OSError with another errno, an exception of
\* any other class.
ReaderErrors == {"SerialException", "OSError_EBADF", "OSError_EIO", "Exception"}

\* _BufferProtocol.connection_lost(exception), exception not None: the value
\* of self._connection_reset afterwards.
ConnectionLostFlag(flag, e) ==
    IF e = "SerialException" THEN TRUE
    ELSE IF e \in {"OSError_EBADF", "OSError_EIO"} THEN e = "OSError_EBADF"
    ELSE flag

\* _BufferProtocol.connection_lost(exception): the else branch raises the
\* exception, in the thread that called it.
ConnectionLostRaises(e) ==
    e \notin {"SerialException", "OSError_EBADF", "OSError_EIO"}

SerialInit ==
    /\ device \in Arrivals
    /\ protocol_buffer = <<>>
    /\ connection_reset = FALSE
    /\ reader = "alive"
    /\ cause = "none"
    /\ disconnect_asked = FALSE
    /\ fpc = "idle"
    /\ fresult = "none"
    /\ got = <<>>
    /\ lock = "free"
    /\ rpc = "read"
    /\ data = <<>>
    /\ read_size = 0
    /\ call = NoCall
    /\ total = 0
    /\ written = 0
    /\ transport_error = "none"
    /\ passed = <<>>

\* ReaderThread.run: the read returns what has arrived and the thread calls
\* data_received(data).
ReaderRead ==
    /\ reader = "alive"
    /\ rpc = "read"
    /\ device # <<>>
    /\ \E k \in 1..Len(device) :
        /\ data' = SubSeq(device, 1, k)
        /\ device' = SubSeq(device, k + 1, Len(device))
    /\ rpc' = "data_received"
    /\ UNCHANGED <<protocol_buffer, connection_reset, reader, cause,
                   disconnect_asked, fpc, fresult, got, lock, read_size,
                   call, total, written, transport_error>>
    /\ passed' = passed \o data'
    /\ UNCHANGED notSerial

\* data_received: `with self._lock` acquires the mutex.
DataReceivedLock ==
    /\ rpc = "data_received"
    /\ lock = "free"
    /\ lock' = "reader"
    /\ rpc' = "locked"
    /\ UNCHANGED <<device, protocol_buffer, connection_reset, reader, cause,
                   disconnect_asked, fpc, fresult, got, data, read_size,
                   call, total, written, transport_error, passed>>
    /\ UNCHANGED notSerial

\* DataReceived putting the data in front of the buffer.
DataReceivedPrepending ==
    /\ rpc = "locked"
    /\ protocol_buffer' = data \o protocol_buffer
    /\ data' = <<>>
    /\ lock' = "free"
    /\ rpc' = "read"
    /\ UNCHANGED <<device, connection_reset, reader, cause, disconnect_asked,
                   fpc, fresult, got, read_size, call, total, written,
                   transport_error, passed>>
    /\ UNCHANGED notSerial

\* data_received: inside the with block the buffer is extended; leaving the
\* block releases the mutex.
DataReceived ==
    /\ rpc = "locked"
    /\ protocol_buffer' = protocol_buffer \o data
    /\ data' = <<>>
    /\ lock' = "free"
    /\ rpc' = "read"
    /\ UNCHANGED <<device, connection_reset, reader, cause, disconnect_asked,
                   fpc, fresult, got, read_size, call, total, written,
                   transport_error, passed>>
    /\ UNCHANGED notSerial

\* The reader thread ends on an exception e: ReaderThread.run passes a
\* SerialException of the read to connection_lost; anything else leaves run()
\* and is passed to connection_lost by ExceptionReaderThread.run.
ReaderFails ==
    /\ reader = "alive"
    /\ rpc = "read"
    /\ \E e \in ReaderErrors :
        /\ cause' = e
        /\ connection_reset' = ConnectionLostFlag(connection_reset, e)
        /\ reader' = IF ConnectionLostRaises(e) THEN "raised" ELSE "ended"
    /\ UNCHANGED <<device, protocol_buffer, disconnect_asked, fpc, fresult,
                   got, lock, rpc, data, read_size, call, total, written,
                   transport_error, passed>>
    /\ UNCHANGED notSerial

\* The caller's disconnect callable changes its answer.
SetDisconnectAsked ==
    /\ disconnect_asked' = ~disconnect_asked
    /\ UNCHANGED <<device, protocol_buffer, connection_reset, reader, cause,
                   fpc, fresult, got, lock, rpc, data, read_size, call,
                   total, written, transport_error, passed>>
    /\ UNCHANGED notSerial

\* self._transport.stop(): a reader that is alive stops.
TransportStop(r) == IF r = "alive" THEN "stopped" ELSE r

\* The handler calls receive(buffer_size).
SerialReceiveCall ==
    /\ fpc = "idle"
    /\ fpc' = "receive"
    /\ fresult' = "none"
    /\ read_size' \in ReadSizes
    /\ UNCHANGED <<device, protocol_buffer, connection_reset, reader, cause,
                   disconnect_asked, got, lock, rpc, data, call, total,
                   written, transport_error, passed>>
    /\ UNCHANGED notSerial

\* SerialReceiveIteration leaving the loop without a look at poll().
SerialReceiveIterationNoPoll ==
    /\ fpc = "receive"
    /\ reader' = IF disconnect_asked \/ connection_reset
                 THEN TransportStop(reader) ELSE reader
    /\ IF connection_reset
       THEN fresult' = "ConnectionReset" /\ fpc' = "idle"
       ELSE IF disconnect_asked
       THEN fresult' = "ConnectionAborted" /\ fpc' = "idle"
       ELSE fpc' = "read" /\ UNCHANGED fresult
    /\ read_size' = IF connection_reset \/ disconnect_asked THEN 0 ELSE read_size
    /\ UNCHANGED <<device, protocol_buffer, connection_reset, cause,
                   disconnect_asked, got, lock, rpc, data, call,
                   total, written, transport_error, passed>>
    /\ UNCHANGED notSerial

\* One iteration of the wait loop of _SerialConnection.receive: the disconnect
\* property (lines 165-171), then poll(), which asks the buffer for its length
\* (__len__) and leaves the loop when it is not 0.
SerialReceiveIteration ==
    /\ fpc = "receive"
    /\ reader' = IF disconnect_asked \/ connection_reset
                 THEN TransportStop(reader) ELSE reader
    /\ IF connection_reset
       THEN fresult' = "ConnectionReset" /\ fpc' = "idle"
       ELSE IF disconnect_asked
       THEN fresult' = "ConnectionAborted" /\ fpc' = "idle"
       ELSE IF Len(protocol_buffer) # 0
       THEN fpc' = "read" /\ UNCHANGED fresult
       ELSE UNCHANGED <<fresult, fpc>>
    /\ read_size' = IF connection_reset \/ disconnect_asked THEN 0 ELSE read_size
    /\ UNCHANGED <<device, protocol_buffer, connection_reset, cause,
                   disconnect_asked, got, lock, rpc, data, call,
                   total, written, transport_error, passed>>
    /\ UNCHANGED notSerial

\* _BufferProtocol.read: `with self._lock` acquires the mutex.
SerialReadLock ==
    /\ fpc = "read"
    /\ lock = "free"
    /\ lock' = "foreground"
    /\ fpc' = "locked"
    /\ UNCHANGED <<device, protocol_buffer, connection_reset, reader, cause,
                   disconnect_asked, fresult, got, rpc, data, read_size,
                   call, total, written, transport_error, passed>>
    /\ UNCHANGED notSerial

\* _BufferProtocol.read(max(1, buffer_size)): inside the with block the first
\* buffer_size bytes are taken off the buffer; leaving the block releases the
\* mutex, and receive returns what was taken.
SerialRead ==
    /\ fpc = "locked"
    /\ LET n == Max(1, read_size)
           k == IF Len(protocol_buffer) < n THEN Len(protocol_buffer) ELSE n
       IN /\ got' = got \o SubSeq(protocol_buffer, 1, k)
          /\ protocol_buffer' = SubSeq(protocol_buffer, k + 1, Len(protocol_buffer))
          /\ fresult' = IF k = 0 THEN "empty" ELSE "data"
    /\ lock' = "free"
    /\ fpc' = "idle"
    /\ read_size' = 0
    /\ UNCHANGED <<device, connection_reset, reader, cause, disconnect_asked,
                   rpc, data, call, total, written, transport_error, passed>>
    /\ UNCHANGED notSerial

\* The handler calls send(buffer, encoding): `while total < len(buffer)` is
\* not entered for an empty buffer, and len() raises TypeError for an object
\* that has no length.
SerialSendCall ==
    /\ fpc = "idle"
    /\ written < MaxWritten
    /\ \E p \in Payloads, enc \in Encodings :
        IF p.type = "int"
        THEN fresult' = "TypeError" /\ UNCHANGED <<fpc, call>>
        ELSE IF Len(p.data) = 0
        THEN fresult' = "sent" /\ UNCHANGED <<fpc, call>>
        ELSE /\ fresult' = "none"
             /\ fpc' = "send"
             /\ call' = [buffer |-> p, encoding |-> enc]
    /\ total' = 0
    /\ transport_error' = "none"
    /\ UNCHANGED <<device, protocol_buffer, connection_reset, reader, cause,
                   disconnect_asked, got, lock, rpc, data, read_size,
                   written, passed>>
    /\ UNCHANGED notSerial

\* One iteration of `while total < len(buffer)` of _SerialConnection.send:
\* the disconnect property, poll() (always ready for writing), then
\* self._protocol.write(self._encode(buffer[total:], encoding)).
SerialSendIteration ==
    /\ fpc = "send"
    /\ reader' = IF disconnect_asked \/ connection_reset
                 THEN TransportStop(reader) ELSE reader
    /\ LET rest == [call.buffer EXCEPT
                        !.data = SubSeq(@, total + 1, Len(@))]
           sent_ == Len(Encode(rest))
       IN IF connection_reset
          THEN /\ fresult' = "ConnectionReset" /\ fpc' = "idle"
               /\ call' = NoCall /\ total' = 0
               /\ UNCHANGED <<written, transport_error>>
          ELSE IF disconnect_asked
          THEN /\ fresult' = "ConnectionAborted" /\ fpc' = "idle"
               /\ call' = NoCall /\ total' = 0
               /\ UNCHANGED <<written, transport_error>>
          ELSE IF EncodeRaises(rest, call.encoding) # "none"
          THEN /\ fresult' = EncodeRaises(rest, call.encoding)
               /\ fpc' = "idle"
               /\ call' = NoCall /\ total' = 0
               /\ UNCHANGED <<written, transport_error>>
          ELSE \E outcome \in WriteOutcomes :
               IF outcome = "ok"
               THEN /\ written' = written + sent_
                    /\ UNCHANGED transport_error
                    /\ IF total + sent_ < Len(call.buffer.data)
                       THEN /\ total' = total + sent_
                            /\ UNCHANGED <<fresult, fpc, call>>
                       ELSE /\ fresult' = "sent" /\ fpc' = "idle"
                            /\ call' = NoCall /\ total' = 0
               ELSE /\ transport_error' = outcome
                    /\ fresult' = ProtocolWrite(outcome)
                    /\ fpc' = "idle"
                    /\ call' = NoCall /\ total' = 0
                    /\ UNCHANGED written
    /\ UNCHANGED <<device, protocol_buffer, connection_reset, cause,
                   disconnect_asked, got, lock, rpc, data, read_size, passed>>
    /\ UNCHANGED notSerial

\* The handler reads connection.disconnect.
SerialDisconnectCheck ==
    /\ fpc = "idle"
    /\ reader' = IF disconnect_asked \/ connection_reset
                 THEN TransportStop(reader) ELSE reader
    /\ fresult' = IF connection_reset THEN "ConnectionReset"
                  ELSE IF disconnect_asked THEN "True" ELSE "False"
    /\ UNCHANGED <<device, protocol_buffer, connection_reset, cause,
                   disconnect_asked, fpc, got, lock, rpc, data, read_size,
                   call, total, written, transport_error, passed>>
    /\ UNCHANGED notSerial

SerialNext ==
    \/ ReaderRead
    \/ DataReceivedLock
    \/ DataReceived
    \/ ReaderFails
    \/ SetDisconnectAsked
    \/ SerialReceiveCall
    \/ SerialReceiveIteration
    \/ SerialReadLock
    \/ SerialRead
    \/ SerialSendCall
    \/ SerialSendIteration
    \/ SerialDisconnectCheck

SerialIdle ==
    /\ device = <<>>
    /\ protocol_buffer = <<>>
    /\ connection_reset = FALSE
    /\ reader = "alive"
    /\ cause = "none"
    /\ disconnect_asked = FALSE
    /\ fpc = "idle"
    /\ fresult = "none"
    /\ got = <<>>
    /\ lock = "free"
    /\ rpc = "read"
    /\ data = <<>>
    /\ read_size = 0
    /\ call = NoCall
    /\ total = 0
    /\ written = 0
    /\ transport_error = "none"
    /\ passed = <<>>

----------------------------------------------------------------------------
(* A socket connection (Connection/SocketConnection.py)                     *)

\* Number of bytes the peer sends on the connection.
MaxIncoming == 3

\* No send() is started once this many bytes were written to the socket.
MaxSockWritten == 2

\* The buffer_size arguments a handler passes to receive().
BufferSizes == {-1, 0, 1, 2}

\* What self._socket.sendall(data) can do: write, or raise socket.error.
SendallOutcomes == {"ok", "EPIPE"}

\* receive() asking recv() for buffer_size as it was given (no data is
\* returned for a size below 1).
RecvSizeAsGiven(n) == Max(0, n)

\* The size receive() asks recv() for: max(1, buffer_size).
RecvSize(n) == Max(1, n)

\* Connection._decode(buffer, encoding): text with universal newlines, or the
\* bytes themselves when encoding is None.
DecodeWith(buffer, enc) == IF enc = "None" THEN buffer ELSE Decode(buffer)

NoSockCall ==
    [buffer |-> [type |-> "str", data |-> <<>>], encoding |-> "utf8",
     buffer_size |-> 0]

SocketInit ==
    /\ signal = FALSE
    /\ incoming \in UNION {[1..n -> Chars] : n \in 0..MaxIncoming}
    /\ inbox = <<>>
    /\ peer_shut = FALSE
    /\ write_ready = TRUE
    /\ sock_written = 0
    /\ qpc = "idle"
    /\ qcall = NoSockCall
    /\ qresult = "none"
    /\ returned = <<>>
    /\ nrecv = 0
    /\ sock_error = "none"

\* The connection's disconnect callable changes its answer.
SocketSetSignal ==
    /\ signal' = ~signal
    /\ UNCHANGED <<incoming, inbox, peer_shut, write_ready, sock_written, qpc,
                   qcall, qresult, returned, nrecv, sock_error>>
    /\ UNCHANGED notSocket

\* Bytes of the peer arrive in the socket's receive queue.
SocketArrive ==
    /\ incoming # <<>>
    /\ \E k \in 1..Len(incoming) :
        /\ inbox' = inbox \o SubSeq(incoming, 1, k)
        /\ incoming' = SubSeq(incoming, k + 1, Len(incoming))
    /\ UNCHANGED <<signal, peer_shut, write_ready, sock_written, qpc, qcall,
                   qresult, returned, nrecv, sock_error>>
    /\ UNCHANGED notSocket

\* The peer has sent everything and shuts its side down: end of stream.
SocketPeerShutdown ==
    /\ incoming = <<>>
    /\ ~peer_shut
    /\ peer_shut' = TRUE
    /\ UNCHANGED <<signal, incoming, inbox, write_ready, sock_written, qpc,
                   qcall, qresult, returned, nrecv, sock_error>>
    /\ UNCHANGED notSocket

\* The socket's send buffer fills up or drains.
SocketWriteReady ==
    /\ write_ready' = ~write_ready
    /\ UNCHANGED <<signal, incoming, inbox, peer_shut, sock_written, qpc,
                   qcall, qresult, returned, nrecv, sock_error>>
    /\ UNCHANGED notSocket

\* The handler calls send(buffer, encoding).
SocketSendCall ==
    /\ qpc = "idle"
    /\ sock_written < MaxSockWritten
    /\ \E p \in Payloads, enc \in Encodings :
        qcall' = [buffer |-> p, encoding |-> enc, buffer_size |-> 0]
    /\ qpc' = "send"
    /\ qresult' = "none"
    /\ sock_error' = "none"
    /\ UNCHANGED <<signal, incoming, inbox, peer_shut, write_ready,
                   sock_written, returned, nrecv>>
    /\ UNCHANGED notSocket

\* One iteration of the wait loop of _SocketConnection.send (lines 26-31),
\* and, when the loop is left, sendall(self._encode(buffer, encoding)).
SocketSendIteration ==
    /\ qpc = "send"
    /\ IF signal
       THEN /\ qresult' = "ECONNABORTED" /\ qpc' = "idle"
            /\ qcall' = NoSockCall
            /\ UNCHANGED <<sock_written, sock_error>>
       ELSE IF ~write_ready
       THEN UNCHANGED <<qresult, qpc, qcall, sock_written, sock_error>>
       ELSE IF EncodeRaises(qcall.buffer, qcall.encoding) # "none"
       THEN /\ qresult' = EncodeRaises(qcall.buffer, qcall.encoding)
            /\ qpc' = "idle"
            /\ qcall' = NoSockCall
            /\ UNCHANGED <<sock_written, sock_error>>
       ELSE \E outcome \in SendallOutcomes :
            /\ qpc' = "idle"
            /\ qcall' = NoSockCall
            /\ IF outcome = "ok"
               THEN /\ sock_written' = sock_written + Len(Encode(qcall.buffer))
                    /\ qresult' = "sent"
                    /\ UNCHANGED sock_error
               ELSE /\ sock_error' = outcome
                    /\ qresult' = outcome
                    /\ UNCHANGED sock_written
    /\ UNCHANGED <<signal, incoming, inbox, peer_shut, write_ready, returned,
                   nrecv>>
    /\ UNCHANGED notSocket

\* The handler calls receive(buffer_size, encoding).
SocketReceiveCall ==
    /\ qpc = "idle"
    /\ \E n \in BufferSizes, enc \in Encodings :
        qcall' = [NoSockCall EXCEPT !.buffer_size = n, !.encoding = enc]
    /\ qpc' = "receive"
    /\ qresult' = "none"
    /\ returned' = <<>>
    /\ nrecv' = 0
    /\ sock_error' = "none"
    /\ UNCHANGED <<signal, incoming, inbox, peer_shut, write_ready,
                   sock_written>>
    /\ UNCHANGED notSocket

\* One iteration of the wait loop of _SocketConnection.receive (lines 38-43),
\* and, when the loop is left, lines 44-48: the socket is ready for reading
\* when bytes have arrived or the stream has ended; recv returns at most the
\* size asked for, and nothing at the end of the stream.
SocketReceiveIteration ==
    /\ qpc = "receive"
    /\ IF signal
       THEN /\ qresult' = "ECONNABORTED" /\ qpc' = "idle"
            /\ qcall' = NoSockCall
            /\ UNCHANGED <<inbox, returned, nrecv>>
       ELSE IF inbox = <<>> /\ ~peer_shut
       THEN UNCHANGED <<qresult, qpc, qcall, inbox, returned, nrecv>>
       ELSE LET n == RecvSize(qcall.buffer_size)
                k == IF Len(inbox) < n THEN Len(inbox) ELSE n
                buffer == SubSeq(inbox, 1, k)
            IN /\ qpc' = "idle"
               /\ qcall' = [NoSockCall EXCEPT !.buffer_size = qcall.buffer_size]
               /\ inbox' = SubSeq(inbox, k + 1, Len(inbox))
               /\ nrecv' = k
               /\ IF Len(buffer) = 0
                  THEN qresult' = "ECONNRESET" /\ UNCHANGED returned
                  ELSE /\ qresult' = "data"
                       /\ returned' = DecodeWith(buffer, qcall.encoding)
    /\ UNCHANGED <<signal, incoming, peer_shut, write_ready, sock_written,
                   sock_error>>
    /\ UNCHANGED notSocket

SocketNext ==
    \/ SocketSetSignal
    \/ SocketArrive
    \/ SocketPeerShutdown
    \/ SocketWriteReady
    \/ SocketSendCall
    \/ SocketSendIteration
    \/ SocketReceiveCall
    \/ SocketReceiveIteration

SocketIdle ==
    /\ signal = FALSE
    /\ incoming = <<>>
    /\ inbox = <<>>
    /\ peer_shut = FALSE
    /\ write_ready = TRUE
    /\ sock_written = 0
    /\ qpc = "idle"
    /\ qcall = NoSockCall
    /\ qresult = "none"
    /\ returned = <<>>
    /\ nrecv = 0
    /\ sock_error = "none"

----------------------------------------------------------------------------
(* The echo scenario: the handler echo_server (TestServer.py) serving a     *)
(* client whose handler sends lines and reads the answers                   *)
(* (Client/SocketClient.py), over one socket connection                     *)

\* Number of lines the client sends before 'quit', and their length.
MaxLines == 2

MaxLineLen == 2

\* The characters of the client's lines: a letter, the letter q, a space.
\* The one-letter word q stands for the word 'quit', H for 'Hello'.
LineChars == {"a", "q", "SP"}

Quit == <<"q">>

Hello == <<"H">>

LineTexts == UNION {[1..n -> LineChars] : n \in 0..MaxLineLen} \ {Quit}

Scripts == UNION {[1..n -> LineTexts] : n \in 0..MaxLines}

Whitespace == {"SP", "LF", "CR"}

RECURSIVE LStrip(_)
LStrip(s) ==
    IF s # <<>> /\ Head(s) \in Whitespace THEN LStrip(Tail(s)) ELSE s

RECURSIVE RStrip(_)
RStrip(s) ==
    IF s # <<>> /\ s[Len(s)] \in Whitespace
    THEN RStrip(SubSeq(s, 1, Len(s) - 1)) ELSE s

\* str.strip() leaving what follows the text.
StripLeadingOnly(s) == LStrip(s)

\* str.strip()
Strip(s) == RStrip(LStrip(s))

\* str.upper()
Upper(s) ==
    [i \in 1..Len(s) |-> IF s[i] = "a" THEN "A"
                         ELSE IF s[i] = "q" THEN "Q" ELSE s[i]]

\* What the client's handler sends with its i-th send: its lines, then 'quit'.
Message(i) ==
    (IF i <= Len(script) THEN script[i] ELSE Quit) \o <<"LF">>

\* What the scenario expects the client to read.
Expected ==
    <<Hello \o <<"LF">>>> \o
    [i \in 1..Len(script) |-> Upper(script[i]) \o <<"LF">>]

EchoInit ==
    /\ script \in Scripts
    /\ to_server = <<>>
    /\ to_client = <<>>
    /\ spc = "hello"
    /\ server_line_buffer = <<>>
    /\ server_closed = FALSE
    /\ server_outcome = "none"
    /\ cmode = "idle"
    /\ nsent = 0
    /\ client_line_buffer = <<>>
    /\ reads = <<>>
    /\ client_closed = FALSE
    /\ client_outcome = "none"

\* echo_server line 8: connection.send('Hello\n').
ServerSendHello ==
    /\ spc = "hello"
    /\ IF client_closed
       THEN /\ server_outcome' = "EPIPE" /\ spc' = "closing"
            /\ UNCHANGED to_client
       ELSE /\ to_client' = to_client \o Utf8(Hello \o <<"LF">>)
            /\ spc' = "receive_line"
            /\ UNCHANGED server_outcome
    /\ UNCHANGED <<script, to_server, server_line_buffer, server_closed,
                   cmode, nsent, client_line_buffer, reads, client_closed,
                   client_outcome>>
    /\ UNCHANGED notEcho

\* echo_server line 9, receive_line lines 81-83: no newline in the line
\* buffer, so receive() is called: it returns a chunk of what has arrived, or
\* raises ECONNRESET at the end of the stream.
ServerReceive ==
    /\ spc = "receive_line"
    /\ Find(server_line_buffer) < 0
    /\ to_server # <<>> \/ client_closed
    /\ IF to_server # <<>>
       THEN /\ \E k \in 1..Len(to_server) :
                /\ server_line_buffer' =
                       server_line_buffer \o Decode(SubSeq(to_server, 1, k))
                /\ to_server' = SubSeq(to_server, k + 1, Len(to_server))
            /\ UNCHANGED <<spc, server_outcome>>
       ELSE /\ server_outcome' = "ECONNRESET" /\ spc' = "closing"
            /\ UNCHANGED <<to_server, server_line_buffer>>
    /\ UNCHANGED <<script, to_client, server_closed, cmode, nsent,
                   client_line_buffer, reads, client_closed, client_outcome>>
    /\ UNCHANGED notEcho

\* receive_line lines 86-87 return the first line of the line buffer;
\* echo_server lines 10-12: leave the loop on 'quit', else send the line in
\* upper case.
ServerLine ==
    /\ spc = "receive_line"
    /\ Find(server_line_buffer) >= 0
    /\ LET cut == SplitLine(server_line_buffer, Find(server_line_buffer))
       IN /\ server_line_buffer' = cut[2]
          /\ IF Strip(cut[1]) = Quit
             THEN spc' = "closing" /\ UNCHANGED <<to_client, server_outcome>>
             ELSE IF client_closed
             THEN /\ server_outcome' = "EPIPE" /\ spc' = "closing"
                  /\ UNCHANGED to_client
             ELSE /\ to_client' = to_client \o Utf8(Upper(cut[1]))
                  /\ UNCHANGED <<spc, server_outcome>>
    /\ UNCHANGED <<script, to_server, server_closed, cmode, nsent,
                   client_line_buffer, reads, client_closed, client_outcome>>
    /\ UNCHANGED notEcho

\* The handler has ended: the dispatcher's finally clause closes the
\* connection.
ServerClose ==
    /\ spc = "closing"
    /\ spc' = "closed"
    /\ server_closed' = TRUE
    /\ UNCHANGED <<script, to_server, to_client, server_line_buffer,
                   server_outcome, cmode, nsent, client_line_buffer, reads,
                   client_closed, client_outcome>>
    /\ UNCHANGED notEcho

\* The client's handler sends its next line.
ClientSend ==
    /\ cmode = "idle"
    /\ client_outcome = "none"
    /\ nsent <= Len(script)
    /\ IF server_closed
       THEN /\ client_outcome' = "EPIPE" /\ client_closed' = TRUE
            /\ UNCHANGED <<to_server, nsent>>
       ELSE /\ to_server' = to_server \o Utf8(Message(nsent + 1))
            /\ nsent' = nsent + 1
            /\ UNCHANGED <<client_outcome, client_closed>>
    /\ UNCHANGED <<script, to_client, spc, server_line_buffer, server_closed,
                   server_outcome, cmode, client_line_buffer, reads>>
    /\ UNCHANGED notEcho

\* The client's handler calls receive_line for the greeting or for the answer
\* to a line it has sent.
ClientReceiveLineCall ==
    /\ cmode = "idle"
    /\ client_outcome = "none"
    /\ Len(reads) < 1 + (IF nsent < Len(script) THEN nsent ELSE Len(script))
    /\ cmode' = "receive_line"
    /\ UNCHANGED <<script, to_server, to_client, spc, server_line_buffer,
                   server_closed, server_outcome, nsent, client_line_buffer,
                   reads, client_closed, client_outcome>>
    /\ UNCHANGED notEcho

\* receive_line lines 81-83 in the client; an ECONNRESET leaves the handler
\* and connect()'s finally clause closes the connection.
ClientReceive ==
    /\ cmode = "receive_line"
    /\ Find(client_line_buffer) < 0
    /\ to_client # <<>> \/ server_closed
    /\ IF to_client # <<>>
       THEN /\ \E k \in 1..Len(to_client) :
                /\ client_line_buffer' =
                       client_line_buffer \o Decode(SubSeq(to_client, 1, k))
                /\ to_client' = SubSeq(to_client, k + 1, Len(to_client))
            /\ UNCHANGED <<cmode, client_outcome, client_closed>>
       ELSE /\ client_outcome' = "ECONNRESET" /\ client_closed' = TRUE
            /\ cmode' = "idle"
            /\ UNCHANGED <<to_client, client_line_buffer>>
    /\ UNCHANGED <<script, to_server, spc, server_line_buffer, server_closed,
                   server_outcome, nsent, reads>>
    /\ UNCHANGED notEcho

\* receive_line lines 86-87 in the client.
ClientLine ==
    /\ cmode = "receive_line"
    /\ Find(client_line_buffer) >= 0
    /\ LET cut == SplitLine(client_line_buffer, Find(client_line_buffer))
       IN /\ reads' = Append(reads, cut[1])
          /\ client_line_buffer' = cut[2]
    /\ cmode' = "idle"
    /\ UNCHANGED <<script, to_server, to_client, spc, server_line_buffer,
                   server_closed, server_outcome, nsent, client_closed,
                   client_outcome>>
    /\ UNCHANGED notEcho

\* The client's handler has sent 'quit' and read every answer: it returns,
\* connect() leaves its loop (SocketClient.py:63-64) and the finally clause
\* closes the connection.
ClientReturn ==
    /\ cmode = "idle"
    /\ client_outcome = "none"
    /\ nsent = Len(script) + 1
    /\ Len(reads) = Len(script) + 1
    /\ client_outcome' = "returned"
    /\ client_closed' = TRUE
    /\ UNCHANGED <<script, to_server, to_client, spc, server_line_buffer,
                   server_closed, server_outcome, cmode, nsent,
                   client_line_buffer, reads>>
    /\ UNCHANGED notEcho

EchoNext ==
    \/ ServerSendHello
    \/ ServerReceive
    \/ ServerLine
    \/ ServerClose
    \/ ClientSend
    \/ ClientReceiveLineCall
    \/ ClientReceive
    \/ ClientLine
    \/ ClientReturn

EchoIdle ==
    /\ script = <<>>
    /\ to_server = <<>>
    /\ to_client = <<>>
    /\ spc = "hello"
    /\ server_line_buffer = <<>>
    /\ server_closed = FALSE
    /\ server_outcome = "none"
    /\ cmode = "idle"
    /\ nsent = 0
    /\ client_line_buffer = <<>>
    /\ reads = <<>>
    /\ client_closed = FALSE
    /\ client_outcome = "none"

----------------------------------------------------------------------------
(* The construction of a socket server: __init__ of the six classes         *)
(* _{Forking,Threading,Iterative}{TCP,UNIX}SocketServer, of _SocketServer   *)
(* and of Server (Server/SocketServer.py, Server/Server.py)                 *)

TCPClasses == {"ForkingTCP", "ThreadingTCP", "IterativeTCP"}

UNIXClasses == {"ForkingUNIX", "ThreadingUNIX", "IterativeUNIX"}

\* What can be at the path given to a Unix socket server: nothing, a socket
\* (left by an earlier server, or in use by a running one), something else.
PathStates == {"absent", "socket", "file"}

\* The errors with which __init__ rejects its arguments.
ValidationErrors ==
    {"E_INVALID_IP_ADDRESS", "E_INTEGRAL_PORT", "E_PATH_EXISTS_BUT_NOT_SOCKET",
     "E_HANDLER_NOT_CALLABLE"}

\* What bind() can do: bind, or raise (the address is in use, the directory
\* is not writable).
BindOutcomes == {"ok", "OSError"}

\* _SocketServer._is_socket(path)
IsSocket(p) == p = "socket"

\* os.path.exists(path)
Exists(p) == p # "absent"

ConstructInit ==
    /\ server_class \in TCPClasses \cup UNIXClasses
    /\ address_valid \in (IF server_class \in TCPClasses THEN BOOLEAN ELSE {TRUE})
    /\ port_integral \in (IF server_class \in TCPClasses THEN BOOLEAN ELSE {TRUE})
    /\ handler_callable \in BOOLEAN
    /\ path_before \in (IF server_class \in UNIXClasses
                        THEN PathStates ELSE {"absent"})
    /\ path_state = path_before
    /\ listen_socket = "none"
    /\ ipc = "start"
    /\ init_raised = "none"

\* __init__ of the TCP classes up to the call of the base class's __init__:
\* the address, then the port.
TCPValidate ==
    /\ ipc = "start"
    /\ server_class \in TCPClasses
    /\ IF ~address_valid
       THEN ipc' = "raised" /\ init_raised' = "E_INVALID_IP_ADDRESS"
       ELSE IF ~port_integral
       THEN ipc' = "raised" /\ init_raised' = "E_INTEGRAL_PORT"
       ELSE ipc' = "base" /\ UNCHANGED init_raised
    /\ UNCHANGED <<server_class, address_valid, port_integral,
                   handler_callable, path_before, path_state, listen_socket>>
    /\ UNCHANGED notConstruct

\* __init__ of the UNIX classes up to the call of the base class's __init__:
\* a socket at the path is removed, anything else at the path is an error.
UNIXValidate ==
    /\ ipc = "start"
    /\ server_class \in UNIXClasses
    /\ IF IsSocket(path_state)
       THEN /\ path_state' = "absent"
            /\ ipc' = "base"
            /\ UNCHANGED init_raised
       ELSE IF Exists(path_state)
       THEN /\ ipc' = "raised"
            /\ init_raised' = "E_PATH_EXISTS_BUT_NOT_SOCKET"
            /\ UNCHANGED path_state
       ELSE /\ ipc' = "base"
            /\ UNCHANGED <<path_state, init_raised>>
    /\ UNCHANGED <<server_class, address_valid, port_integral,
                   handler_callable, path_before, listen_socket>>
    /\ UNCHANGED notConstruct

\* Server.__init__, called first thing by _SocketServer.__init__: the handler
\* must be callable.
ServerInitBase ==
    /\ ipc = "base"
    /\ IF ~handler_callable
       THEN ipc' = "raised" /\ init_raised' = "E_HANDLER_NOT_CALLABLE"
       ELSE ipc' = "socket" /\ UNCHANGED init_raised
    /\ UNCHANGED <<server_class, address_valid, port_integral,
                   handler_callable, path_before, path_state, listen_socket>>
    /\ UNCHANGED notConstruct

\* _SocketServer.__init__: socket.socket(), setsockopt, settimeout.
CreateSocket ==
    /\ ipc = "socket"
    /\ listen_socket' = "created"
    /\ ipc' = "bind"
    /\ UNCHANGED <<server_class, address_valid, port_integral,
                   handler_callable, path_before, path_state, init_raised>>
    /\ UNCHANGED notConstruct

\* _SocketServer.__init__: self._socket.bind(self._address); binding a Unix
\* socket creates the socket at the path.
BindSocket ==
    /\ ipc = "bind"
    /\ \E outcome \in BindOutcomes :
        IF outcome = "ok"
        THEN /\ listen_socket' = "bound"
             /\ path_state' = IF server_class \in UNIXClasses
                              THEN "socket" ELSE path_state
             /\ ipc' = "done"
             /\ UNCHANGED init_raised
        ELSE /\ ipc' = "raised"
             /\ init_raised' = outcome
             /\ UNCHANGED <<listen_socket, path_state>>
    /\ UNCHANGED <<server_class, address_valid, port_integral,
                   handler_callable, path_before>>
    /\ UNCHANGED notConstruct

ConstructNext ==
    \/ TCPValidate
    \/ UNIXValidate
    \/ ServerInitBase
    \/ CreateSocket
    \/ BindSocket

\* Where no construction is looked at, the server has been constructed.
ConstructIdle ==
    /\ server_class = "ForkingTCP"
    /\ address_valid = TRUE
    /\ port_integral = TRUE
    /\ handler_callable = TRUE
    /\ path_before = "absent"
    /\ path_state = "absent"
    /\ listen_socket = "bound"
    /\ ipc = "done"
    /\ init_raised = "none"

----------------------------------------------------------------------------
(* Specifications *)

\* The dispatchers with their units and connections.
Init == ServerInit /\ ClientIdle /\ LineIdle /\ SerialIdle /\ EchoIdle /\ SocketIdle
    /\ ConstructIdle

Next == ServerNext

Spec == Init /\ [][Next]_vars

\* The dispatchers under the scheduling the code relies on: the dispatcher's
\* own steps are taken when they can be (accept() times out after 1.0 s,
\* waitpid(WNOHANG) and is_alive() do not block, the sleeps end); nothing is
\* a unit's wait loop in receive() polls on, and a unit whose handler call has
\* ended runs its finally clause.  Nothing is assumed of peers, nor of what a
\* handler does next: it may stay in one place for ever.
Fairness ==
    /\ \A c \in Conns : WF_vars(ReceiveIteration(c))
    /\ \A c \in Conns : WF_vars(HandlerEnd(c))
    /\ WF_vars(EvalOuter)
    /\ WF_vars(AcceptTimeout)
    /\ WF_vars(EvalInner)
    /\ WF_vars(ReapOne)
    /\ WF_vars(ReapCheck)
    /\ WF_vars(StopOne)
    /\ WF_vars(Return)

SpecLive == Init /\ [][Next]_vars /\ Fairness

\* The clients.
InitClient == ClientInit /\ ServerIdle /\ LineIdle /\ SerialIdle /\ EchoIdle /\ SocketIdle
    /\ ConstructIdle

NextClient == ClientNext

SpecClient == InitClient /\ [][NextClient]_vars

\* One connection's line reader and the stream it reads.
InitLine == LineInit /\ ServerIdle /\ ClientIdle /\ SerialIdle /\ EchoIdle /\ SocketIdle
    /\ ConstructIdle

NextLine == LineNext

SpecLine == InitLine /\ [][NextLine]_vars

\* One serial connection: its reader thread and the handler that uses it.
InitSerial == SerialInit /\ ServerIdle /\ ClientIdle /\ LineIdle /\ EchoIdle /\ SocketIdle
    /\ ConstructIdle

NextSerial == SerialNext

SpecSerial == InitSerial /\ [][NextSerial]_vars

\* One socket connection and the handler that uses it.
InitSocket ==
    SocketInit /\ ServerIdle /\ ClientIdle /\ LineIdle /\ SerialIdle /\ EchoIdle
    /\ ConstructIdle

NextSocket == SocketNext

SpecSocket == InitSocket /\ [][NextSocket]_vars

\* The echo scenario: both handlers keep running, and what one end has sent
\* arrives at the other.
InitEcho ==
    EchoInit /\ ServerIdle /\ ClientIdle /\ LineIdle /\ SerialIdle /\ SocketIdle
    /\ ConstructIdle

NextEcho == EchoNext

EchoFairness ==
    /\ WF_vars(ServerSendHello)
    /\ WF_vars(ServerReceive)
    /\ WF_vars(ServerLine)
    /\ WF_vars(ServerClose)
    /\ WF_vars(ClientSend)
    /\ WF_vars(ClientReceiveLineCall)
    /\ WF_vars(ClientReceive)
    /\ WF_vars(ClientLine)
    /\ WF_vars(ClientReturn)

SpecEcho == InitEcho /\ [][NextEcho]_vars /\ EchoFairness

\* The construction of one socket server.
InitConstruct ==
    /\ ConstructInit
    /\ ServerIdle /\ ClientIdle /\ LineIdle /\ SerialIdle /\ EchoIdle
    /\ SocketIdle

NextConstruct == ConstructNext

SpecConstruct == InitConstruct /\ [][NextConstruct]_vars

----------------------------------------------------------------------------
(* Claims about the dispatchers (checked under Spec) *)

\* C1: with max_connections = K, the number of handler invocations running at
\* the same time is at most K in every reachable state.
C1_AtMostK ==
    Cardinality({c \in Conns : Running(c)}) <= max_connections

\* C2: every accepted connection is closed exactly once by the unit that ran
\* its handler, however the handler ended, also when the peer has already
\* dropped the connection and the shutdown step of the close fails.
C2_ClosedExactlyOnce ==
    \A c \in Conns : hpc[c] = "exited" => closes[c] = 1

\* C3: at the moment serve_until returns, no handler it started is still
\* running.
C3_NoneRunningAtReturn ==
    pc = "returned" => \A c \in Conns : ~Running(c)

\* C4: once an evaluation of a connection's disconnect signal has returned
\* True, every later evaluation during the same handler invocation returns
\* True; stated for the forking strategy, whose signal is the one-shot
\* 'disconnect' message on the pipe (the threading signal is not serve()).
C4_MonotonicSignal ==
    \A c \in Conns : (strategy = "forking" /\ everTrue[c]) => lastEval[c]

\* C5: when the disconnect signal is true at an iteration of the wait loop of
\* a receive call, that iteration raises ConnectionAborted without reading
\* from the transport, and the connection is then closed exactly once when the
\* unit ends.
C5_AbortThenClosedOnce ==
    [][\A c \in Conns :
        /\ (hpc[c] = "recv" /\ Disconnect(c) /\ hpc'[c] # "recv")
              => (hpc'[c] = "run" /\ lastEval'[c] /\ peer'[c] = peer[c])
        /\ (everTrue[c] /\ hpc[c] \in Ended /\ hpc'[c] = "exited")
              => closes'[c] = 1]_vars

\* The positions of serve_until inside its accept loop and its reap loop.
LoopPositions == {"outer", "accept", "inner", "reap"}

\* C16: shutdown is never starved: from any moment on from which the stop
\* predicate (serve) stays false, the dispatcher leaves its accept/reap loop,
\* when no connection arrives (accept times out, the predicate is evaluated
\* again) and when all slots are taken and no unit terminates (the reap loop
\* evaluates the predicate on every iteration).
C16_ShutdownNotStarved ==
    []<>(keep_running \/ pc \notin LoopPositions)

\* The dispatcher has left its loops while every slot was taken by a unit
\* whose handler was still running.
C16_Witness ==
    /\ ~keep_running
    /\ pc = "stop"
    /\ Len(children) = max_connections
    /\ \A i \in 1..Len(children) : Running(children[i])

\* C17: every blocking wait of a dispatcher is bounded or re-checks the stop
\* predicate: from any moment on from which the stop predicate stays false,
\* serve_until of every strategy returns, also when a handler in flight never
\* sends or receives again.
C17_ServeUntilReturns ==
    []<>(keep_running \/ pc = "returned")

\* C18: an exception of a handler that has nothing to do with the connection
\* prevents neither the closing of the handler's connection nor the reclaiming
\* of its slot: the finally clause that follows closes the connection, and the
\* reap loop's next look at the terminated unit removes it from the list, so
\* that the list does not stay full on its account.
C18_ExceptionKeepsCloseAndSlot ==
    [][/\ \A c \in Conns :
            (hpc[c] = "except_other" /\ hpc'[c] # hpc[c])
               => (hpc'[c] = "exited" /\ closes'[c] = closes[c] + 1)
       /\ (pc = "reap" /\ todo # <<>> /\ todo' # todo /\ hpc[Head(todo)] = "exited")
               => \A i \in 1..Len(children') : children'[i] # Head(todo)
       /\ (pc = "handler" /\ pc' # pc) => pc' = "outer"]_vars

\* C19: for one connection the three strategies behave alike: the handler is
\* invoked once, never again after it ended; after the handler ended, whatever
\* the outcome, the connection is closed, and the status is the value returned
\* when that is an integer and 0 otherwise, 0 also when the handler raised.
\* The formula does not mention the strategy: it is required of all three.
C19_StrategiesAgree ==
    [][\A c \in Conns :
        /\ (hpc'[c] = "run" /\ hpc[c] \notin {"run", "recv"}) => hpc[c] = "idle"
        /\ (hpc[c] \in Ended /\ hpc'[c] # hpc[c])
              => /\ hpc'[c] = "exited"
                 /\ closes'[c] = closes[c] + 1
                 /\ status'[c] = IF /\ hpc[c] = "returned"
                                    /\ status[c][1] \in {"int", "int_wide"}
                                 THEN status[c] ELSE <<"int", 0>>]_vars

\* The units whose handler call has begun and which have not terminated.
Alive == {c \in Conns : hpc[c] \in {"run", "recv", "escaped"} \cup Ended}

InList(l, c) == \E i \in 1..Len(l) : l[i] = c

C28_OneUnitThatExits ==
    [][\A c \in Conns :
          /\ (hpc'[c] = "run" /\ hpc[c] \notin {"run", "recv"}) =>
                (hpc[c] = "idle" /\ accepted' = c /\ accepted = c - 1)
          /\ hpc'[c] = "idle" <=> c > accepted'
          /\ (strategy = "forking" /\ hpc[c] \in Ended /\ hpc'[c] # hpc[c]) =>
                hpc'[c] = "exited"]_vars

\* C29: whenever a forking or threading dispatcher calls accept, its list of
\* active units holds fewer than max_connections entries, whatever the stop
\* predicate returns from one evaluation to the next.
C29_AcceptOnlyWithFreeSlot ==
    (pc = "accept" /\ strategy # "iterative") => Len(children) < max_connections

\* C30: the iterative dispatcher runs at most one handler at any time, and
\* calls accept again only after the previous handler has ended and its
\* connection has been closed.
C30_IterativeOneAtATime ==
    strategy = "iterative" =>
        /\ Cardinality(Alive) <= 1
        /\ pc = "accept" =>
              \A c \in 1..accepted : hpc[c] = "exited" /\ closes[c] = 1

\* The positions of a dispatcher between its entry into the serve loop and
\* its leaving it: the loops, and the handler call of the iterative dispatcher.
ServePositions == LoopPositions \cup {"handler"}

\* C31: a dispatcher leaves its serve loop only because the stop predicate
\* evaluated false or because accept failed fatally; no outcome of a handler
\* (normal return, connection error, any other Exception) ends serve_until or
\* leaves it as an exception: no step of a handler unit moves the dispatcher,
\* except that the iterative dispatcher, when its handler has ended, is back
\* at the top of its loop, listening.
C31_HandlerNeverEndsServeUntil ==
    [][/\ (pc \in ServePositions /\ pc' \notin ServePositions) =>
             \/ pc = "outer" /\ ~keep_running /\ pc' = "stop"
             \/ pc = "accept" /\ pc' = "raised"
       /\ \A c \in Conns :
             (hpc[c] \in {"run", "recv"} \cup Ended /\ hpc'[c] # hpc[c]) =>
                pc' = IF strategy = "iterative" /\ hpc[c] \in Ended
                      THEN "outer" ELSE pc
       /\ (pc = "handler" /\ pc' # pc) =>
             (pc' = "outer" /\ hpc[accepted] \in Ended)]_vars

\* The iterative dispatcher is listening again after each of its handlers has
\* ended, one of them with the status it returned and one of them without.
C31_Witness ==
    /\ strategy = "iterative"
    /\ pc = "accept"
    /\ accepted = MaxConn
    /\ \A c \in Conns : hpc[c] = "exited"
    /\ status[1] = <<"int", 3>>
    /\ status[MaxConn] = <<"int", 0>>

\* C32: in the forking strategy the parent sends the 'disconnect' token at
\* most once per child, only on that child's own pipe, and never after it has
\* closed its write end of that pipe: a message is put on a pipe only by the
\* loop that follows the accept loop, for the child it has come to, on a write
\* end that is open and that the same step closes; a write end that is closed
\* stays closed and nothing is sent on it; reaping a child closes its pipe
\* and sends nothing.
C32_TokenAtMostOnce ==
    [][\A c \in Conns :
          /\ wclosed[c] => (wclosed'[c] /\ Len(pipe'[c]) <= Len(pipe[c]))
          /\ Len(pipe'[c]) > Len(pipe[c]) =>
                /\ strategy = "forking" /\ c <= accepted
                /\ pc = "stop" /\ todo # <<>> /\ Head(todo) = c
                /\ pipe'[c] = Append(pipe[c], "disconnect")
                /\ ~wclosed[c] /\ wclosed'[c]
                /\ \A d \in Conns \ {c} : pipe'[d] = pipe[d]
          /\ (pc = "reap" /\ ~wclosed[c] /\ wclosed'[c]) =>
                (hpc[c] = "exited" /\ pipe'[c] = pipe[c])]_vars

\* serve_until has returned after it reaped its first child, whose pipe it
\* closed with no message on it, and sent the token to its second child, which
\* was still in the list.
C32_Witness ==
    /\ strategy = "forking"
    /\ pc = "returned"
    /\ hpc[1] = "exited" /\ ~InList(children, 1)
    /\ wclosed[1] /\ pipe[1] = <<>>
    /\ InList(children, 2)
    /\ wclosed[2] /\ pipe[2] = <<"disconnect">>

----------------------------------------------------------------------------
(* Claims about the clients (checked under SpecClient) *)

\* C6: with a throttle configured and a stop predicate that stays false, when
\* the server refuses the first k attempts and accepts the next one and the
\* handler returns normally, connect() makes exactly k+1 open attempts and
\* invokes the handler exactly once.
C6_OneHandlerCallOnAttemptKPlus1 ==
    (reconnect /\ ~everStopped /\ outcomes # <<>> /\ outcomes[1] = "return")
        => (handlerCalls = 1 /\ opens = refusals + 1)

\* C7: when the handler raises ConnectionAborted, connect() closes the
\* transport and returns normally, with no further open attempt and no sleep,
\* whether or not a throttle is configured.
C7_AbortedStopsGracefully ==
    [][/\ (cpc = "handler" /\ cpc' # "handler"
               /\ outcomes'[Len(outcomes')] = "aborted")
          => (cpc' = "returned" /\ ~transport_open' /\ raised' = "none"
                 /\ sleeps' = sleeps /\ opens' = opens)
       /\ cpc = "returned"
          => (cpc' = "returned" /\ opens' = opens /\ sleeps' = sleeps
                 /\ handlerCalls' = handlerCalls)]_vars

\* C8: when the handler raises ConnectionReset or a transient transport error
\* the client, if a throttle is configured, sleeps the interval once and goes
\* back to the top of the connect loop, where it re-opens the transport
\* provided the stop predicate is false; without a throttle the error is
\* raised to the caller and no further attempt is made.  Any other error
\* raised by the handler is raised to the caller and ends connect().
C8_HandlerErrorPolicy ==
    [][/\ (cpc = "handler" /\ cpc' # "handler")
          => LET o == outcomes'[Len(outcomes')] IN
             /\ (o \in {"reset", "epipe"} /\ reconnect)
                   => (cpc' = "top" /\ sleeps' = sleeps + 1 /\ raised' = "none")
             /\ (o \in {"reset", "epipe"} /\ ~reconnect)
                   => (cpc' = "raised" /\ raised' = o /\ sleeps' = sleeps)
             /\ o \in {"oserror", "exception"}
                   => (cpc' = "raised" /\ raised' = o /\ sleeps' = sleeps)
       /\ (cpc = "top" /\ cpc' # "top")
          => cpc' = (IF stop_requested THEN "returned" ELSE "open")
       /\ (cpc = "open" /\ cpc' # "open") => opens' = opens + 1
       /\ cpc = "raised"
          => (cpc' = "raised" /\ raised' = raised /\ opens' = opens
                 /\ sleeps' = sleeps /\ handlerCalls' = handlerCalls)]_vars

\* A connection was lost during the handler, the client slept, re-opened the
\* transport and runs the handler again.
C8_Witness ==
    /\ reconnect
    /\ outcomes # <<>>
    /\ outcomes[Len(outcomes)] \in {"reset", "epipe"}
    /\ sleeps >= 1
    /\ opens >= 2
    /\ cpc = "handler"

\* C9: every transport connect() created or opened is closed before the next
\* open attempt and before connect() returns or raises.
C9_TransportClosed ==
    cpc \in {"open", "returned", "raised"} => (~transport_open /\ unclosed = 0)

\* C10: with reconnect = None the client is single-attempt: the first
\* connection error (refused, or lost during the handler) is raised unchanged
\* to the caller, and connect() never makes a second open attempt and never
\* sleeps.
C10_SingleAttempt ==
    ~reconnect =>
        /\ opens <= 1
        /\ sleeps = 0
        /\ refusals >= 1 => (cpc = "raised" /\ raised = "refused")
        /\ (outcomes # <<>> /\ outcomes[1] \in {"reset", "epipe"})
              => (cpc = "raised" /\ raised = outcomes[1])

\* C11: connect() attempts to open the transport only while the stop predicate
\* is false: every open attempt is made from the position reached by an
\* evaluation of the predicate that returned false, one attempt per
\* evaluation; once an evaluation at the top of the connect loop returns true,
\* connect() returns normally without opening the transport and without
\* invoking the handler, then or later.
C11_OpenOnlyWhilePredicateFalse ==
    [][/\ (opens' # opens) => (cpc = "open" /\ cpc' # "open" /\ opens' = opens + 1)
       /\ (cpc # "open" /\ cpc' = "open") => (cpc = "top" /\ ~stop_requested)
       /\ (handlerCalls' # handlerCalls) => cpc = "open"
       /\ (cpc = "top" /\ stop_requested /\ cpc' # "top")
             => (cpc' = "returned" /\ raised' = "none" /\ opens' = opens
                    /\ handlerCalls' = handlerCalls /\ sleeps' = sleeps)
       /\ cpc = "returned"
             => (cpc' = "returned" /\ raised' = "none" /\ opens' = opens
                    /\ handlerCalls' = handlerCalls)]_vars

\* connect() has returned although no handler invocation ever ended: an open
\* attempt was refused, the client slept, and the next evaluation of the stop
\* predicate returned true.
C11_Witness ==
    /\ cpc = "returned"
    /\ stop_requested
    /\ outcomes = <<>>
    /\ opens >= 1
    /\ sleeps = opens

\* C33: when the handler returns normally, connect() closes the transport and
\* returns: it makes no further open attempt and does not invoke the handler
\* again, for the socket and the serial client alike, with or without a
\* reconnect throttle.
C33_NormalReturnTerminates ==
    [][/\ (cpc = "handler" /\ cpc' # "handler"
               /\ outcomes'[Len(outcomes')] = "return")
          => (cpc' = "returned" /\ ~transport_open' /\ raised' = "none")
       /\ (outcomes # <<>> /\ outcomes[Len(outcomes)] = "return")
          => (opens' = opens /\ handlerCalls' = handlerCalls
                 /\ sleeps' = sleeps)]_vars

\* C34: client retries are throttled: within one connect() call there is
\* exactly one sleep of the throttle interval between any two consecutive
\* open attempts, so that when an open attempt is made each earlier one has
\* been followed by its sleep, and no sleep is made but after an attempt.
C34_RetriesThrottled ==
    [][/\ opens' # opens => (opens' = opens + 1 /\ sleeps = opens)
       /\ sleeps' # sleeps => (sleeps' = sleeps + 1 /\ sleeps' = opens')]_vars

----------------------------------------------------------------------------
(* Claims about receive and receive_line (checked under SpecLine) *)

\* C12: for every sequence of received chunks, every prior content of the
\* line buffer and every bound N >= 1, a line returned by
\* receive_line(buffer_size = N) is at most N characters long.
C12_LineWithinBound ==
    [][(lines' # lines /\ bounded')
          => Len(lines'[Len(lines')]) <= buffer_size']_vars

\* C13: receive_line never loses, duplicates or reorders data: the lines
\* returned so far, concatenated, followed by the line buffer are the
\* concatenation of the decoded chunks obtained from receive.
C13_NothingLost ==
    Flatten(lines) \o line_buffer = decoded

\* A line was cut at the bound and the rest of it was delivered by the next
\* call.
C13_Witness ==
    /\ Len(lines) >= 2
    /\ Find(lines[1]) < 0
    /\ Find(lines[2]) >= 0
    /\ lpc = "idle"

\* C14: receive_line does not return while the accumulated data holds no
\* newline and has not reached the bound, and it returns without asking for
\* more data once the accumulated data holds a newline or has reached the
\* bound N; without a bound it returns only on a newline.
C14_ReturnsExactlyWhenLineOrBound ==
    [][/\ (lines' # lines)
          => \/ Find(lines'[Len(lines')]) >= 0
             \/ bounded' /\ Len(lines'[Len(lines')]) >= buffer_size'
       /\ (lpc' = "receive")
          => /\ Find(line_buffer') < 0
             /\ bounded' => Len(line_buffer') < buffer_size']_vars

\* C15: round trip: whatever way the byte stream is cut into receive chunks,
\* what receive returned, concatenated, is the universal-newline
\* normalization of the text sent, and so is what receive_line returned
\* followed by the line buffer.
C15_RoundTrip ==
    wire = <<>> =>
        /\ decoded = UniversalNewlines(sent)
        /\ Flatten(lines) \o line_buffer = UniversalNewlines(sent)

\* C25: receive_line with encoding None raises InvalidEncodingNone before any
\* data is received: no receive call is made and the line buffer is as it
\* was.
C25_EncodingNoneRejected ==
    [][(lpc = "idle" /\ encoding' = "None") =>
          /\ line_raised' = "InvalidEncodingNone"
          /\ lpc' = "idle"
          /\ UNCHANGED <<wire, decoded, line_buffer, lines>>]_vars

\* C35: every string receive_line returns holds at most one newline, and
\* only as its last character; a line returned because the bound N was
\* exceeded (the one way a line without a newline is returned) has exactly N
\* characters, and the characters after position N of the accumulated data
\* stay at the front of the line buffer.
C35_LineShape ==
    [][lines' # lines =>
          LET line == lines'[Len(lines')]
              chunk == SubSeq(decoded', Len(decoded) + 1, Len(decoded'))
          IN /\ lines' = Append(lines, line)
             /\ \A i \in 1..Len(line) : line[i] = "LF" => i = Len(line)
             /\ line \o line_buffer' = line_buffer \o chunk
             /\ Find(line) < 0 =>
                   /\ bounded'
                   /\ Len(line) = buffer_size'
                   /\ line_buffer' # <<>>]_vars

\* A line was returned with its newline, and the call that followed returned
\* a line cut at the bound, the rest of which is in the line buffer.
C35_Witness ==
    /\ lpc = "idle"
    /\ Len(lines) = 2
    /\ Find(lines[1]) = Len(lines[1]) - 1
    /\ Find(lines[2]) < 0
    /\ bounded /\ buffer_size = MaxN /\ Len(lines[2]) = MaxN
    /\ line_buffer # <<>>

----------------------------------------------------------------------------
(* Claims about the serial connection (checked under SpecSerial) *)

\* C20: whatever exception ends the background reader (a SerialException, an
\* OSError with any errno, any other exception), it is recorded, so that the
\* next receive or disconnect check of the foreground raises ConnectionReset,
\* and no exception is raised inside the reader thread itself.
C20_ReaderErrorBecomesReset ==
    [][/\ cause' # "none" => (connection_reset' /\ reader' # "raised")
       /\ (cause # "none" /\ fresult' # fresult /\ fresult' # "none")
             => fresult' = "ConnectionReset"]_vars

\* C21: the receive buffer is only accessed under its mutex: the foreground
\* holds the lock when poll() asks for the buffer's length and when the bytes
\* are read off it, the reader thread holds it when it appends, so no thread
\* accesses the buffer while the other one is inside its critical section.
C21_BufferUnderMutex ==
    [][/\ (fpc = "receive" /\ fpc' = "read") => lock = "foreground"
       /\ Len(protocol_buffer') < Len(protocol_buffer) => lock = "foreground"
       /\ Len(protocol_buffer') > Len(protocol_buffer) => lock = "reader"]_vars

\* C23: send never writes once it has observed the disconnect signal true: a
\* send issued, or waiting, when the signal is true raises ConnectionAborted
\* and writes nothing, also when the transport is ready for writing;
\* otherwise it writes, and an error of the transport's write is raised to
\* the caller unchanged.  Stated for the serial connection (the first three
\* conjuncts) and for the socket connection (the last three).
C23_NoWriteAfterSignal ==
    [][/\ written' # written => ~disconnect_asked
       /\ (/\ disconnect_asked
           /\ \/ fpc = "send" /\ fpc' = "idle"
              \/ fpc = "idle" /\ fresult' # fresult /\ fresult' = "sent")
             => (fresult' = "ConnectionAborted" /\ written' = written)
       /\ (fpc = "send" /\ transport_error' # "none")
             => fresult' = transport_error'
       /\ sock_written' # sock_written => ~signal
       /\ (signal /\ qpc = "send" /\ qpc' = "idle")
             => (qresult' = "ECONNABORTED" /\ sock_written' = sock_written)
       /\ (qpc = "send" /\ sock_error' # "none")
             => qresult' = sock_error']_vars

\* C36: the receive buffer is a FIFO under any interleaving of the reader's
\* data_received(d) and the foreground's read(n): what the reads have
\* returned, followed by the buffer, followed by the data of a data_received
\* call that has not yet got the mutex, is the concatenation of all data
\* passed to data_received, in order; each read returns at most n bytes.
C36_BufferIsFifo ==
    [][/\ got' \o protocol_buffer' \o data' = passed'
       /\ Len(got') >= Len(got) /\ got = SubSeq(got', 1, Len(got))
       /\ Len(passed') >= Len(passed) /\ passed = SubSeq(passed', 1, Len(passed))
       /\ Len(got') - Len(got) <= Max(1, read_size)]_vars

\* A read of one byte has returned the first of the bytes passed so far, and
\* the reader has appended more behind the one the read left.
C36_Witness ==
    /\ fpc = "idle"
    /\ fresult = "data"
    /\ got = <<"x">>
    /\ protocol_buffer = <<"y", "x">>
    /\ passed = <<"x", "y", "x">>

\* C37: a serial receive that returns never returns an empty result: from
\* the poll that saw the buffer non-empty to the read that follows, the
\* buffer stays non-empty (the reader only appends), so the read takes at
\* least one byte, under every interleaving.
C37_SerialReceiveNeverEmpty ==
    [][/\ fpc' \in {"read", "locked"} => protocol_buffer' # <<>>
       /\ Len(protocol_buffer') < Len(protocol_buffer) => fpc = "locked"
       /\ (fpc = "locked" /\ fpc' = "idle") =>
             (fresult' = "data" /\ Len(got') >= Len(got) + 1)
       /\ fresult' # "empty"]_vars

\* A receive has returned every byte that has arrived, in two reads or more,
\* while the reader, in its critical section, is about to append more.
C37_Witness ==
    /\ fpc = "idle"
    /\ fresult = "data"
    /\ Len(got) >= 2
    /\ protocol_buffer = <<>>
    /\ lock = "reader"
    /\ data # <<>>

----------------------------------------------------------------------------
(* Claims about the socket connection (checked under SpecSocket) *)

\* C24: the socket receive never returns an empty result: a zero-length read
\* becomes ECONNRESET, a requested size below 1 is raised to 1, and every
\* receive that succeeds returns at least 1 and at most max(1, buffer_size)
\* bytes.
C24_ReceiveNeverEmpty ==
    [][(qpc = "receive" /\ qpc' = "idle") =>
          \/ qresult' = "ECONNABORTED"
          \/ qresult' = "ECONNRESET" /\ nrecv' = 0 /\ inbox = <<>>
          \/ /\ qresult' = "data"
             /\ 1 <= nrecv' /\ nrecv' <= Max(1, qcall.buffer_size)
             /\ 1 <= Len(returned') /\ Len(returned') <= nrecv']_vars

\* A receive that asked for less than one byte has returned one byte, and
\* another one has returned fewer characters than it read bytes.
C24_Witness ==
    /\ qresult = "data"
    /\ qcall.buffer_size < 1
    /\ nrecv = 1
    /\ Len(returned) = 1
    /\ inbox # <<>>

\* C26: send accepts a text and a raw bytes payload and transmits it; a
\* payload of any other type raises InvalidBufferType and nothing is written.
C26_SendAcceptsTextAndBytes ==
    [][(/\ qpc = "send" /\ qpc' = "idle"
        /\ qresult' # "ECONNABORTED" /\ sock_error' = "none") =>
          IF qcall.buffer.type = "str"
          THEN qcall.encoding = "utf8" =>
                  /\ qresult' = "sent"
                  /\ sock_written' = sock_written + Len(Utf8(qcall.buffer.data))
          ELSE IF qcall.buffer.type = "bytes"
          THEN /\ qresult' = "sent"
               /\ sock_written' = sock_written + Len(qcall.buffer.data)
          ELSE /\ qresult' = "InvalidBufferType"
               /\ sock_written' = sock_written]_vars

----------------------------------------------------------------------------
(* Claims about the construction of a server (checked under SpecConstruct) *)

\* C38: server construction fails fast and without side effects: when a
\* validation of the arguments fails (invalid IP address, non-integral port,
\* path exists but is no socket, handler not callable), no listening socket
\* has been created or bound and what is at the Unix path is what was there
\* before; an existing socket at the path is not removed by a construction
\* that then fails.
C38_ConstructionFailsFast ==
    (ipc = "raised" /\ init_raised \in ValidationErrors) =>
        (listen_socket = "none" /\ path_state = path_before)

----------------------------------------------------------------------------
(* Claims about the echo scenario (checked under SpecEcho) *)

\* The scenario has ended as expected: the client has read the greeting and
\* the upper-cased form of each of its lines, in order, both ends have closed
\* the connection and no handler ended on an error.
EchoDone ==
    /\ reads = Expected
    /\ spc = "closed" /\ server_closed /\ server_outcome = "none"
    /\ client_closed /\ client_outcome = "returned"

====
